---- MODULE Spec2Model ----
(***************************************************************************)
(* A model of the V.League double round-robin scheduler: the GA driver     *)
(* (src/src/optimization/ga_optimizer.py), its configuration, the genetic  *)
(* operators, the hill-climbing local search, the seeders of the initial   *)
(* population, the repair operators, the constraint checker and the        *)
(* history of a run.                                                       *)
(*                                                                         *)
(* Units.  Probabilities and random.random() draws are in hundredths:      *)
(* a probability p in [0,1] is the integer 100*p, a draw in [0,1) is an    *)
(* integer in 0..99.  Fitness values in the driver are abstract levels     *)
(* 0..MaxFitness (the driver only compares and subtracts them);            *)
(* float('-inf') is NegInf, below every level.                             *)
(***************************************************************************)
EXTENDS Integers, Sequences, FiniteSets, TLC

VARIABLES
    \* ---- GA driver (GAOptimizer) ----
    cfg,                 \* self.config
    pc,                  \* position of optimize(): "constructed", "loop", "done", "error"
    error,               \* the exception that ended optimize(), or "none"
    gen,                 \* the loop variable gen (0 before the first generation)
    population,          \* the list population, as the multiset of its members' fitness
                         \* (under SpecHistory and SpecBest: the list of its members)
    best_fitness,        \* self.best_fitness
    best_schedule,       \* self.best_schedule: None, or the fitness of the stored clone
                         \* (under SpecBest: the schedule itself)
    generations_without_improvement,
    last_best_fitness,
    history,             \* self.history (all five arrays under SpecHistory)
    mutated,             \* the local `mutated` of optimize(): "unbound" or "bound"
                         \* (under SpecBlock, SpecOffspring and SpecBest: Unbound, or
                         \* the schedule it refers to)
    members_best,        \* highest fitness of any individual that was ever a member
    \* ---- Match objects and one call of an operator (GeneticOperators) ----
    teams,               \* the ids of the teams the components were built with
    heap,                \* the Match objects: heap[a] is the object at address a
    inputs,              \* the schedules passed to the operator, each the list of
                         \* the addresses in its `matches`
    outputs,             \* the schedules the operator returned
    op,                  \* the operator that was called, "none" before the call
    given,               \* the match records of the inputs when the operator was called
    ls,                  \* the position and the locals of the call that is running:
                         \* _local_search_one, repair_schedule, the mutation block,
                         \* the offspring of a generation; under SpecCheck the
                         \* checker's derby_pairs
    \* ---- The process-wide random module and the optimizers built on it ----
    rng,                 \* the state of the generator behind random.random()
    optimizers           \* per GAOptimizer: its random_seed, position and outcome

varsGA == <<cfg, pc, error, gen, population, best_fitness, best_schedule,
            generations_without_improvement, last_best_fitness, history,
            mutated, members_best>>

varsRng == <<rng, optimizers>>

varsOps == <<teams, heap, inputs, outputs, op, given, ls, varsRng>>

vars == <<varsGA, varsOps>>

----------------------------------------------------------------------------
(* Bounds of the model *)

MaxGenerations == 3      \* n_generations ranges over 0..MaxGenerations
MaxFitness == 1          \* fitness levels 0..MaxFitness

(* float('-inf') *)
NegInf == -1

(* The smallest population_size validate() accepts *)
MinPopulation == 10

MaxPopulation == MinPopulation

FitnessLevels == 0..MaxFitness

----------------------------------------------------------------------------
(* Multisets of fitness values: a function FitnessLevels -> Nat giving how *)
(* many members have each fitness.                                         *)

RECURSIVE SumUpTo(_, _)
SumUpTo(b, k) == IF k < 0 THEN 0 ELSE b[k] + SumUpTo(b, k - 1)

Size(b) == SumUpTo(b, MaxFitness)

EmptyPop == [f \in FitnessLevels |-> 0]

Add1(b, f) == [b EXCEPT ![f] = @ + 1]

Remove1(b, f) == [b EXCEPT ![f] = @ - 1]

RECURSIVE AddAll(_, _)
AddAll(b, s) == IF s = <<>> THEN b ELSE AddAll(Add1(b, Head(s)), Tail(s))

RECURSIVE RemoveAll(_, _)
RemoveAll(b, s) == IF s = <<>> THEN b ELSE RemoveAll(Remove1(b, Head(s)), Tail(s))

MaxOf(b) == CHOOSE f \in FitnessLevels : b[f] > 0 /\ \A h \in FitnessLevels : b[h] > 0 => h <= f

MinOf(b) == CHOOSE f \in FitnessLevels : b[f] > 0 /\ \A h \in FitnessLevels : b[h] > 0 => h >= f

(* All multisets of n fitness values over the levels 0..k *)
RECURSIVE Fill(_, _)
Fill(k, n) ==
    IF k = 0 THEN {[i \in {0} |-> n]}
    ELSE UNION {{[i \in 0..k |-> IF i = k THEN c ELSE f[i]] : f \in Fill(k - 1, n - c)} : c \in 0..n}

(* population_size values the model uses lie in 0..MaxPopulation *)
PopulationsBySize == [n \in 0..MaxPopulation |-> Fill(MaxFitness, n)]

Populations(n) == PopulationsBySize[n]

----------------------------------------------------------------------------
(* GAConfig.validate: the list of error messages, empty when valid.  The  *)
(* init_strategies shares are in thousandths, the sum of the soft_weights *)
(* in hundredths.                                                         *)

Abs(x) == IF x < 0 THEN 0 - x ELSE x


(* sum(self.init_strategies.values()) *)
init_sum(strategies) ==
    strategies.random + strategies.round_robin + strategies.balanced
        + strategies.stadium_aware

validate(c) ==
    (IF c.population_size < MinPopulation THEN <<"Population size < 10">> ELSE <<>>) \o
    (IF c.n_generations < 1 THEN <<"n_generations must be > 0">> ELSE <<>>) \o
    (IF ~(0 <= c.crossover_prob /\ c.crossover_prob <= 100)
        THEN <<"crossover_prob not in [0, 1]">> ELSE <<>>) \o
    (IF ~(0 <= c.mutation_prob /\ c.mutation_prob <= 100)
        THEN <<"mutation_prob not in [0, 1]">> ELSE <<>>) \o
    (IF c.tournament_size < 2 THEN <<"tournament_size must be >= 2">> ELSE <<>>) \o
    (IF c.tournament_size > c.population_size
        THEN <<"tournament_size > population_size">> ELSE <<>>) \o
    (IF c.n_elites < 0 THEN <<"n_elites must be >= 0">> ELSE <<>>) \o
    (IF c.n_elites >= c.population_size
        THEN <<"n_elites must be < population_size">> ELSE <<>>) \o
    (IF Abs(init_sum(c.init_strategies) - 1000) > 10
        THEN <<"init_strategies must sum to 1.0">> ELSE <<>>) \o
    (IF Abs(c.soft_weights_sum - 100) > 1
        THEN <<"soft_weights must sum to 1.0">> ELSE <<>>)

(* The configurations a caller may pass.  Three groups of fields never   *)
(* meet in the driver: the probabilities and use_repair decide which       *)
(* objects a generation builds (and whether it raises); n_elites and the   *)
(* local search decide the next population; n_generations and the early    *)
(* stopping fields decide when the loop ends.  Each group takes all its    *)
(* values while the other two are at BaseConfig; with BaseConfig's first   *)
(* group every outcome of lines 138-164 can happen in every generation.    *)
(* A field the driver does not read while its switch is off stays at its   *)
(* default.                                                                *)
BaseConfig ==
    [ population_size |-> MinPopulation,
      n_generations |-> MaxGenerations,
      crossover_prob |-> 50,
      mutation_prob |-> 50,
      tournament_size |-> 3,
      n_elites |-> 1,
      use_repair |-> FALSE,
      save_history |-> TRUE,
      early_stopping |-> TRUE,
      early_stopping_patience |-> 2,
      early_stopping_min_improvement |-> 1,
      use_local_search |-> FALSE,
      local_search_frequency |-> 50,
      init_strategies |-> [random |-> 400, round_robin |-> 200, balanced |-> 200,
                           stadium_aware |-> 200],
      soft_weights_sum |-> 100 ]

ObjectFields == {"crossover_prob", "mutation_prob", "use_repair"}

ReplacementFields == {"n_elites", "use_local_search", "local_search_frequency"}

LoopFields == {"n_generations", "early_stopping", "early_stopping_patience",
               "early_stopping_min_improvement"}

SameOn(c, d, fields) == \A f \in fields : c[f] = d[f]

CandidateConfigs ==
    { c \in [ population_size : {MinPopulation - 1, MinPopulation},
              n_generations : 0..MaxGenerations,
              crossover_prob : {0, 50, 100},
              mutation_prob : {0, 50, 100},
              tournament_size : {3},
              n_elites : {0, 1},
              use_repair : BOOLEAN,
              save_history : {TRUE},
              early_stopping : BOOLEAN,
              early_stopping_patience : {1, 2, 100},
              early_stopping_min_improvement : {0, 1},
              use_local_search : BOOLEAN,
              local_search_frequency : {1, 2, 50},
              init_strategies : {BaseConfig.init_strategies,
                                 [BaseConfig.init_strategies EXCEPT !.random = 380]},
              soft_weights_sum : {100, 102} ] :
        /\ c.early_stopping_patience = 100 <=> ~c.early_stopping
        /\ ~c.early_stopping => c.early_stopping_min_improvement = 1
        /\ c.local_search_frequency = 50 <=> ~c.use_local_search
        /\ (c.init_strategies # BaseConfig.init_strategies \/ c.soft_weights_sum # 100) =>
              SameOn(c, BaseConfig, DOMAIN BaseConfig \ {"init_strategies", "soft_weights_sum"})
        /\ \/ SameOn(c, BaseConfig, ReplacementFields \cup LoopFields)
           \/ SameOn(c, BaseConfig, ObjectFields \cup LoopFields)
           \/ SameOn(c, BaseConfig, ObjectFields \cup ReplacementFields) }

(* GAOptimizer.__init__ raises ValueError unless validate() is empty *)
ValidConfigs == {c \in CandidateConfigs : validate(c) = <<>>}

----------------------------------------------------------------------------
(* Random draws *)

RandomValues == 0..99

(* The outcomes of `random.random() < p` *)
Below(p) == {r < p : r \in RandomValues}

(* The outcomes of "at least one of n such tests succeeded" and of "all n  *)
(* succeeded": the tests are independent draws with the same outcome set D *)
AnyOf(D, n) == IF n = 0 THEN {FALSE} ELSE D

AllOf(D, n) == IF n = 0 THEN {TRUE} ELSE D

----------------------------------------------------------------------------
(* GA driver: helpers of GAOptimizer                                       *)

Min2(a, b) == IF a <= b THEN a ELSE b

Max2(a, b) == IF a >= b THEN a ELSE b

(* tools.selBest(population, k): the k fittest members, best first *)
RECURSIVE selBest(_, _)
selBest(pop, k) ==
    IF k <= 0 \/ Size(pop) = 0 THEN <<>>
    ELSE <<MaxOf(pop)>> \o selBest(Remove1(pop, MaxOf(pop)), k - 1)

(* sorted(range(len(population)), key=fitness)[:k]: the k least fit members *)
RECURSIVE Worst(_, _)
Worst(pop, k) ==
    IF k <= 0 \/ Size(pop) = 0 THEN <<>>
    ELSE <<MinOf(pop)>> \o Worst(Remove1(pop, MinOf(pop)), k - 1)

(* A Schedule object held by the driver, by the fitness of its matches *)
NoSchedule == [kind |-> "None"]

Stored(f) == [kind |-> "Schedule", fitness |-> f]

(* offspring[:-n_elites] for every evaluated offspring list of P members: *)
(* the slice drops the members `last` in the last n_elites slots          *)
AllButLast(P, n_elites) ==
    {[f \in FitnessLevels |-> offspring[f] - last[f]] :
        offspring \in Populations(P), last \in Populations(n_elites)} \cap Populations(P - n_elites)

(* Variant of Elitism that carries over the least fit members *)
ElitismOfWorst(pop, kept, n_elites) ==
    IF n_elites > 0
    THEN AddAll(kept, Worst(pop, n_elites))
    ELSE kept

(* Elitism and replacement: elites + offspring[:-n_elites], where kept is *)
(* offspring[:-n_elites]; without elites, the offspring list itself       *)
Elitism(pop, kept, n_elites) ==
    IF n_elites > 0
    THEN AddAll(kept, selBest(pop, n_elites))
    ELSE kept

(* _update_history *)
UpdateHistory(h, pop) == [h EXCEPT !.best_fitness = Append(@, MaxOf(pop))]

(* Variant of UpdateBest that stores the current best unconditionally *)
UpdateBestAlways(current_best_fitness, bf, bs) ==
    [fitness |-> current_best_fitness, schedule |-> Stored(current_best_fitness)]

(* Best tracking: the new (best_fitness, best_schedule) *)
UpdateBest(current_best_fitness, bf, bs) ==
    IF current_best_fitness > bf
    THEN [fitness |-> current_best_fitness, schedule |-> Stored(current_best_fitness)]
    ELSE [fitness |-> bf, schedule |-> bs]

(* _local_search_one on a member of fitness f: the fitness its result may  *)
(* carry.  The hill climber keeps a neighbour only when it is strictly     *)
(* better, so the result is never below f (LocalSearch below models the    *)
(* climber on matches).                                                    *)
LocalSearchOne(f) == {f2 \in FitnessLevels : f2 >= f}

n_improve(P) == Min2(5, P \div 10)

(* The lists `improved` that _apply_local_search may build from the list   *)
(* best_individuals                                                        *)
ImprovedLists(best_individuals) ==
    {imp \in [1..Len(best_individuals) -> FitnessLevels] :
        \A i \in 1..Len(best_individuals) : imp[i] \in LocalSearchOne(best_individuals[i])}

(* _apply_local_search: the worst n_improve members are overwritten by the *)
(* improved copies of the best n_improve                                   *)
ApplyLocalSearch(pop, improved) ==
    AddAll(RemoveAll(pop, Worst(pop, Len(improved))), improved)

(* Early stopping: does this generation count as one without improvement?  *)
(* improvement = current_best_fitness - last_best_fitness, and             *)
(* last_best_fitness is -inf in generation 1                               *)
NoImprovement(current_best_fitness, last, min_improvement) ==
    last # NegInf /\ current_best_fitness - last < min_improvement

(* Variant of StallCounter that never resets *)
StallCounterNoReset(counter, current_best_fitness, last, min_improvement) ==
    IF NoImprovement(current_best_fitness, last, min_improvement)
    THEN counter + 1
    ELSE counter

StallCounter(counter, current_best_fitness, last, min_improvement) ==
    IF NoImprovement(current_best_fitness, last, min_improvement)
    THEN counter + 1
    ELSE 0

EarlyStop(counter, patience) == counter >= patience

----------------------------------------------------------------------------
(* GA driver: state machine of GAOptimizer.optimize                        *)

(* _local_search_one has not been called *)
NoSearch == [pc |-> "idle"]

(* No operator call in progress *)
IdleOps ==
    /\ rng = 0
    /\ optimizers = <<>>
    /\ teams = 1..2
    /\ ls = NoSearch
    /\ heap = <<>>
    /\ inputs = <<>>
    /\ outputs = <<>>
    /\ op = "none"
    /\ given = <<>>

InitGA ==
    /\ IdleOps
    /\ cfg \in ValidConfigs
    /\ pc = "constructed"
    /\ error = "none"
    /\ gen = 0
    /\ population = EmptyPop
    /\ best_fitness = NegInf
    /\ best_schedule = NoSchedule
    /\ generations_without_improvement = 0
    /\ last_best_fitness = NegInf
    /\ history = [best_fitness |-> <<>>]
    /\ mutated = "unbound"
    /\ members_best = NegInf

(* optimize(), up to the loop: _initialize_population, _evaluate_population *)
InitializePopulation ==
    /\ pc = "constructed"
    /\ \E pop \in Populations(cfg.population_size) :
        /\ population' = pop
        /\ members_best' = MaxOf(pop)
    /\ generations_without_improvement' = 0
    /\ last_best_fitness' = NegInf
    /\ pc' = IF cfg.n_generations >= 1 THEN "loop" ELSE "done"
    /\ UNCHANGED <<cfg, error, gen, best_fitness, best_schedule, history, mutated>>
    /\ UNCHANGED varsOps

(* An exception leaves optimize() in generation g *)
Raise(g, e, m) ==
    /\ pc' = "error"
    /\ error' = e
    /\ gen' = g
    /\ mutated' = m
    /\ UNCHANGED <<cfg, population, best_fitness, best_schedule,
                   generations_without_improvement, last_best_fitness, history,
                   members_best>>
    /\ UNCHANGED varsOps

(* Does the local search run in generation g? *)
LocalSearchDue(g) == cfg.use_local_search /\ g % cfg.local_search_frequency = 0

(* The end of a generation, from the replacement `population[:] = offspring` *)
(* on: history, best tracking, local search, early stopping.  newpop is the  *)
(* population after replacement, improved the list built by the local search *)
Replace(g, newpop, improved) ==
    LET current_best_fitness == MaxOf(newpop)
        best == UpdateBest(current_best_fitness, best_fitness, best_schedule)
        pop2 == IF LocalSearchDue(g) THEN ApplyLocalSearch(newpop, improved) ELSE newpop
        counter == StallCounter(generations_without_improvement, current_best_fitness,
                                last_best_fitness, cfg.early_stopping_min_improvement)
        stop == cfg.early_stopping /\ EarlyStop(counter, cfg.early_stopping_patience)
    IN  /\ population' = pop2
        /\ history' = IF cfg.save_history THEN UpdateHistory(history, newpop) ELSE history
        /\ best_fitness' = best.fitness
        /\ best_schedule' = best.schedule
        /\ generations_without_improvement' =
              IF cfg.early_stopping THEN counter ELSE generations_without_improvement
        /\ last_best_fitness' =
              IF cfg.early_stopping /\ ~stop THEN current_best_fitness ELSE last_best_fitness
        /\ members_best' = Max2(members_best, Max2(current_best_fitness, MaxOf(pop2)))
        /\ gen' = g
        /\ pc' = IF stop \/ g = cfg.n_generations THEN "done" ELSE "loop"
        /\ UNCHANGED <<cfg, error>>
        /\ UNCHANGED varsOps

(* One pass of the loop body `for gen in range(1, n_generations + 1)`.       *)
(* After cloning (line 135) every offspring is a plain Schedule; the slots   *)
(* of a crossed pair (143-144), the last slot (152) and, with use_repair,    *)
(* every slot (159) are Individuals, and only an Individual has `fitness`.   *)

(* The local `mutated` after the mutation loop of lines 147-149 *)
MutatedAfterLoop(P) ==
    {IF anyMutated THEN "bound" ELSE mutated : anyMutated \in AnyOf(Below(cfg.mutation_prob), P)}

(* Is some offspring still a plain Schedule at line 163? *)
PlainScheduleLeft(P) ==
    {~cfg.use_repair /\ ~allCrossed : allCrossed \in AllOf(Below(cfg.crossover_prob), P \div 2)}

(* Line 152 reads `mutated` while no offspring was ever chosen for mutation *)
GenerationUnbound ==
    /\ pc = "loop"
    /\ "unbound" \in MutatedAfterLoop(Size(population))
    /\ Raise(gen + 1, "UnboundLocalError", "unbound")

(* Line 164 sets ind.fitness.values on a plain Schedule *)
GenerationNoFitness ==
    /\ pc = "loop"
    /\ "bound" \in MutatedAfterLoop(Size(population))
    /\ TRUE \in PlainScheduleLeft(Size(population))
    /\ Raise(gen + 1, "AttributeError", "bound")

(* The generation runs to its end.  Selection draws every offspring slot    *)
(* from the population and crossover, mutation and repair rewrite matches,  *)
(* so the evaluated offspring carry any fitness values.                     *)
Generation ==
    /\ pc = "loop"
    /\ "bound" \in MutatedAfterLoop(Size(population))
    /\ FALSE \in PlainScheduleLeft(Size(population))
    /\ mutated' = "bound"
    /\ \E kept \in AllButLast(Size(population), cfg.n_elites) :
         LET newpop == Elitism(population, kept, cfg.n_elites)
         IN \E improved \in
               (IF LocalSearchDue(gen + 1)
                THEN ImprovedLists(selBest(newpop, n_improve(Size(newpop))))
                ELSE {<<>>}) :
               Replace(gen + 1, newpop, improved)

NextGA ==
    \/ InitializePopulation
    \/ GenerationUnbound
    \/ GenerationNoFitness
    \/ Generation

SpecGA == InitGA /\ [][NextGA]_vars

----------------------------------------------------------------------------
(* Properties of the GA driver                                             *)

(* C1: for every configuration validate() accepts, optimize() runs to      *)
(* completion without an error, executes at most n_generations generations *)
(* and returns a best-ever schedule that is not None.                      *)
C1_OptimizeCompletes ==
    /\ pc # "error"
    /\ gen <= cfg.n_generations
    /\ pc = "done" => best_schedule # NoSchedule

(* C2: when optimize() returns, the fitness of the returned schedule is at *)
(* least the fitness of every individual that was ever a member of the     *)
(* population (initial population, after each replacement, local search).  *)
C2_ReturnsBestEver ==
    pc = "done" =>
        /\ best_schedule # NoSchedule
        /\ best_schedule.fitness >= members_best

(* C3: best_fitness never decreases from one generation to the next.       *)
C3_BestFitnessMonotone == [][best_fitness' >= best_fitness]_vars

(* C3 witness: the best of the population fell below the best of an        *)
(* earlier generation, and best_fitness kept the earlier value.            *)
C3_Witness ==
    /\ gen >= 2
    /\ Len(history.best_fitness) = gen
    /\ history.best_fitness[gen] < history.best_fitness[1]
    /\ best_fitness = history.best_fitness[1]

(* C4: with n_elites >= 1 the best fitness recorded for generation g+1 is  *)
(* at least the one recorded for generation g, for every g, local search   *)
(* between the two recordings included.                                    *)
C4_PopulationBestMonotone ==
    cfg.n_elites >= 1 =>
        \A g \in 1..(Len(history.best_fitness) - 1) :
            history.best_fitness[g + 1] >= history.best_fitness[g]

(* C4 witness: elites kept, local search ran after generation 1 was        *)
(* recorded, and generation 2 recorded a higher best.                      *)
C4_Witness ==
    /\ cfg.n_elites >= 1
    /\ cfg.use_local_search /\ cfg.local_search_frequency = 1
    /\ Len(history.best_fitness) >= 2
    /\ history.best_fitness[2] > history.best_fitness[1]

(* Generation i recorded no improvement over generation i-1 (generation 1  *)
(* has no predecessor: last_best_fitness is -inf there)                    *)
StalledAt(i) ==
    /\ i >= 2
    /\ history.best_fitness[i] - history.best_fitness[i - 1]
          < cfg.early_stopping_min_improvement

(* The number of consecutive generations without improvement ending at g *)
RECURSIVE TrailingStalls(_)
TrailingStalls(g) == IF g >= 1 /\ StalledAt(g) THEN 1 + TrailingStalls(g - 1) ELSE 0

(* C5: with early_stopping, the loop stops at generation g before          *)
(* n_generations iff each of the last early_stopping_patience generations  *)
(* ending at g improved the population best by less than min_improvement;  *)
(* the stall counter is reset by any generation that improved at least     *)
(* that much (so it counts the stalled generations since the last one).    *)
C5_EarlyStopping ==
    (cfg.early_stopping /\ cfg.save_history /\ pc \in {"loop", "done"} /\ gen >= 1) =>
        /\ generations_without_improvement = TrailingStalls(gen)
        /\ gen < cfg.n_generations =>
              (pc = "done" <=>
                  \A i \in (gen - cfg.early_stopping_patience + 1)..gen : StalledAt(i))

(* C5 witness: the loop stopped before n_generations *)
C5_Witness ==
    /\ cfg.early_stopping
    /\ pc = "done"
    /\ gen < cfg.n_generations

----------------------------------------------------------------------------
(* The lineup (the variable teams), Match objects and schedules            *)

n_teams == Cardinality(teams)

total_rounds == 2 * (n_teams - 1)

Rounds == 1..total_rounds

(* Team.home_stadium_id: every team has its own stadium *)
home_stadium_id(t) == t

Stadiums == {home_stadium_id(t) : t \in teams}

(* Longest schedule handed to a mutation *)
MaxMatches == 3

(* A Match object without its id (the dates are None throughout) *)
MatchValues(stadiums_of) ==
    {m \in [home_team_id : teams, away_team_id : teams,
            stadium_id : Stadiums, round_number : Rounds] :
        /\ m.home_team_id # m.away_team_id
        /\ m.stadium_id \in stadiums_of[m.home_team_id]}

AnyStadium == [t \in teams |-> Stadiums]

HomeStadium == [t \in teams |-> {home_stadium_id(t)}]

Match(id, v) ==
    [id |-> id, home_team_id |-> v.home_team_id, away_team_id |-> v.away_team_id,
     stadium_id |-> v.stadium_id, round_number |-> v.round_number]

(* The lists of at most n Match objects, ids numbered along the list *)
MatchLists(n, stadiums_of) ==
    UNION {{[i \in 1..k |-> Match(i, vs[i])] : vs \in [1..k -> MatchValues(stadiums_of)]} :
           k \in 0..n}

(* The addresses lo+1..lo+k in order: a list of k objects allocated after lo *)
Block(lo, k) == [i \in 1..k |-> lo + i]

(* The Match objects in the list s of addresses *)
Deref(h, s) == [i \in 1..Len(s) |-> h[s[i]]]

(* Variant of clone that returns the schedule it was given *)
cloneSame(h, s) == [heap |-> h, schedule |-> s]

(* Schedule.clone: a new Match object per match, field by field *)
clone(h, s) ==
    [heap |-> h \o [i \in 1..Len(s) |->
                      [id |-> h[s[i]].id,
                       home_team_id |-> h[s[i]].home_team_id,
                       away_team_id |-> h[s[i]].away_team_id,
                       stadium_id |-> h[s[i]].stadium_id,
                       round_number |-> h[s[i]].round_number]],
     schedule |-> Block(Len(h), Len(s))]

(* temp = a.round_number; a.round_number = b.round_number; b.round_number = temp *)
SwapRoundNumbers(h, a, b) ==
    [h EXCEPT ![a].round_number = h[b].round_number,
              ![b].round_number = h[a].round_number]

(* Schedule.get_matches_by_round, as the set of addresses *)
get_matches_by_round(h, s, r) ==
    {s[i] : i \in {j \in 1..Len(s) : h[s[j]].round_number = r}}

----------------------------------------------------------------------------
(* Mutation operators: the set of results [heap, schedule] a call may have *)

mutate_swap_matches(h, schedule) ==
    LET c == clone(h, schedule)
        n == Len(c.schedule)
    IN  IF n < 2 THEN {c}
        ELSE {[heap |-> SwapRoundNumbers(c.heap, c.schedule[idx[1]], c.schedule[idx[2]]),
               schedule |-> c.schedule] :
                 idx \in {p \in (1..n) \X (1..n) : p[1] # p[2]}}

mutate_swap_rounds(h, schedule) ==
    LET c == clone(h, schedule)
    IN  {[heap |-> [a \in 1..Len(c.heap) |->
                      IF a <= Len(h) THEN c.heap[a]
                      ELSE IF c.heap[a].round_number = rs[1]
                           THEN [c.heap[a] EXCEPT !.round_number = rs[2]]
                      ELSE IF c.heap[a].round_number = rs[2]
                           THEN [c.heap[a] EXCEPT !.round_number = rs[1]]
                      ELSE c.heap[a]],
          schedule |-> c.schedule] :
            rs \in {p \in Rounds \X Rounds : p[1] # p[2]}}

mutate_shuffle_round(h, schedule) ==
    LET c == clone(h, schedule)
    IN  UNION {
          LET round_matches == get_matches_by_round(c.heap, c.schedule, target_round)
          IN  IF Cardinality(round_matches) > 1
              THEN UNION {
                     LET other_matches == get_matches_by_round(c.heap, c.schedule, other_round)
                     IN  IF other_round # target_round /\ other_matches # {}
                         THEN {[heap |-> SwapRoundNumbers(c.heap, match1, match2),
                                schedule |-> c.schedule] :
                                  match1 \in round_matches, match2 \in other_matches}
                         ELSE {c}
                     : other_round \in Rounds}
              ELSE {c}
          : target_round \in Rounds}

mutate_reverse_home_away(h, schedule) ==
    LET c == clone(h, schedule)
        n == Len(c.schedule)
    IN  IF n = 0 THEN {c}
        ELSE {LET match_to_reverse == c.schedule[k]
                  found == {i \in 1..n :
                              /\ c.heap[c.schedule[i]].home_team_id
                                    = c.heap[match_to_reverse].away_team_id
                              /\ c.heap[c.schedule[i]].away_team_id
                                    = c.heap[match_to_reverse].home_team_id}
              IN  IF found = {} THEN c
                  ELSE LET first == CHOOSE i \in found : \A j \in found : i <= j
                       IN  [heap |-> SwapRoundNumbers(c.heap, match_to_reverse, c.schedule[first]),
                            schedule |-> c.schedule]
              : k \in 1..n}

mutate_move_match(h, schedule) ==
    LET c == clone(h, schedule)
        n == Len(c.schedule)
    IN  IF n = 0 THEN {c}
        ELSE {[heap |-> [c.heap EXCEPT ![c.schedule[k]].round_number = new_round],
               schedule |-> c.schedule] :
                 k \in 1..n, new_round \in Rounds}

(* apply_mutation: the schedule itself when the draw exceeds mutation_rate, *)
(* else the result of one of the five operators                            *)
apply_mutation(h, schedule, mutation_rate) ==
    (IF \E r \in RandomValues : r > mutation_rate
     THEN {[heap |-> h, schedule |-> schedule]} ELSE {})
    \cup
    (IF \E r \in RandomValues : ~(r > mutation_rate)
     THEN mutate_swap_matches(h, schedule) \cup mutate_swap_rounds(h, schedule)
          \cup mutate_shuffle_round(h, schedule) \cup mutate_reverse_home_away(h, schedule)
          \cup mutate_move_match(h, schedule)
     ELSE {})

----------------------------------------------------------------------------
(* One call of a mutation operator on a schedule                           *)

(* The driver is not running *)
IdleGA ==
    /\ cfg = BaseConfig
    /\ pc = "idle"
    /\ error = "none"
    /\ gen = 0
    /\ population = EmptyPop
    /\ best_fitness = NegInf
    /\ best_schedule = NoSchedule
    /\ generations_without_improvement = 0
    /\ last_best_fitness = NegInf
    /\ history = [best_fitness |-> <<>>]
    /\ mutated = "unbound"
    /\ members_best = NegInf

(* The mutation_rate values apply_mutation is called with, in hundredths *)
MutationRates == {0, 10, 100}

InitMut ==
    /\ IdleGA
    /\ rng = 0
    /\ optimizers = <<>>
    /\ teams = 1..2
    /\ ls = NoSearch
    /\ heap \in MatchLists(MaxMatches, AnyStadium)
    /\ inputs = <<Block(0, Len(heap))>>
    /\ outputs = <<>>
    /\ op = "none"
    /\ given = <<heap>>

(* The operator `name` returns one of `results` *)
Return1(name, results) ==
    /\ op = "none"
    /\ \E res \in results :
         /\ heap' = res.heap
         /\ outputs' = <<res.schedule>>
    /\ op' = name
    /\ UNCHANGED <<teams, inputs, given, ls, varsRng>>
    /\ UNCHANGED varsGA

MutateSwapMatches == Return1("mutate_swap_matches", mutate_swap_matches(heap, inputs[1]))

MutateSwapRounds == Return1("mutate_swap_rounds", mutate_swap_rounds(heap, inputs[1]))

MutateShuffleRound == Return1("mutate_shuffle_round", mutate_shuffle_round(heap, inputs[1]))

MutateReverseHomeAway ==
    Return1("mutate_reverse_home_away", mutate_reverse_home_away(heap, inputs[1]))

MutateMoveMatch == Return1("mutate_move_match", mutate_move_match(heap, inputs[1]))

ApplyMutation ==
    \E mutation_rate \in MutationRates :
        Return1("apply_mutation", apply_mutation(heap, inputs[1], mutation_rate))

NextMut ==
    \/ MutateSwapMatches
    \/ MutateSwapRounds
    \/ MutateShuffleRound
    \/ MutateReverseHomeAway
    \/ MutateMoveMatch
    \/ ApplyMutation

SpecMut == InitMut /\ [][NextMut]_vars

Mutations == {"mutate_swap_matches", "mutate_swap_rounds", "mutate_shuffle_round",
              "mutate_reverse_home_away", "mutate_move_match"}

(* How many matches of the list ms have the (home, away, stadium) of m *)
CountOf(ms, m) ==
    Cardinality({i \in 1..Len(ms) :
                    /\ ms[i].home_team_id = m.home_team_id
                    /\ ms[i].away_team_id = m.away_team_id
                    /\ ms[i].stadium_id = m.stadium_id})

(* C6: each of the five mutations returns a schedule with the same         *)
(* multiset of (home, away, stadium) matches as its input; only round      *)
(* numbers may differ (match by match, every other field is the input's),  *)
(* and the input schedule is left unchanged.                               *)
C6_MutationPreservesMatches ==
    op \in Mutations =>
        LET out == Deref(heap, outputs[1])
        IN  /\ \A m \in MatchValues(AnyStadium) : CountOf(out, m) = CountOf(given[1], m)
            /\ Len(out) = Len(given[1])
            /\ \A i \in 1..Len(out) :
                  [out[i] EXCEPT !.round_number = given[1][i].round_number] = given[1][i]
            /\ Deref(heap, inputs[1]) = given[1]

(* C6 witness: a mutation returned a schedule in which a round number      *)
(* differs from the input's.                                               *)
C6_Witness ==
    /\ op \in Mutations
    /\ Len(given[1]) = MaxMatches
    /\ \E i \in 1..Len(given[1]) :
          heap[outputs[1][i]].round_number # given[1][i].round_number

----------------------------------------------------------------------------
(* Crossover operators: the set of results [heap, offspring1, offspring2]  *)
(* a call may have.  add_match appends the parent's Match object itself.   *)

(* Variant of matchup that keeps the direction: (home, away) unsorted *)
matchup_unsorted(m) == <<m.home_team_id, m.away_team_id>>

(* tuple(sorted([home_team_id, away_team_id])): the pair without direction *)
matchup(m) == {m.home_team_id, m.away_team_id}

NoMatches == [matches |-> <<>>, used |-> {}]

(* Variant of AddUnused that skips the `matchup not in used` test *)
AddAlways(h, s, eligible, acc) ==
    [matches |-> acc.matches \o SelectSeq(s, LAMBDA a : a \in eligible),
     used |-> acc.used \cup {matchup(h[a]) : a \in eligible}]

(* The loop `for match in parent.matches`: an eligible match whose matchup *)
(* is not yet used is added to the offspring and its matchup marked used   *)
RECURSIVE AddUnusedFrom(_, _, _, _)
AddUnusedFrom(h, s, eligible, acc) ==
    IF s = <<>> THEN acc
    ELSE IF Head(s) \in eligible /\ matchup(h[Head(s)]) \notin acc.used
         THEN AddUnusedFrom(h, Tail(s), eligible,
                            [matches |-> Append(acc.matches, Head(s)),
                             used |-> acc.used \cup {matchup(h[Head(s)])}])
         ELSE AddUnusedFrom(h, Tail(s), eligible, acc)

AddUnused(h, s, eligible, acc) == AddUnusedFrom(h, s, eligible, acc)

Addresses(s) == {s[i] : i \in 1..Len(s)}

(* Offspring built from the matches of `first` that lie in `rounds`, then  *)
(* from every match of `second`                                            *)
OffspringOf(h, first, second, rounds) ==
    AddUnused(h, second, Addresses(second),
              AddUnused(h, first,
                        {a \in Addresses(first) : h[a].round_number \in rounds},
                        NoMatches)).matches

crossover_round_swap(h, parent1, parent2) ==
    {[heap |-> h,
      offspring1 |-> OffspringOf(h, parent1, parent2, rounds_from_p1),
      offspring2 |-> OffspringOf(h, parent2, parent1, rounds_from_p1)] :
        rounds_from_p1 \in {rs \in SUBSET Rounds :
                               Cardinality(rs) \in 1..(total_rounds - 1)}}

crossover_single_point(h, parent1, parent2) ==
    {[heap |-> h,
      offspring1 |-> OffspringOf(h, parent1, parent2, 1..cut_point),
      offspring2 |-> OffspringOf(h, parent2, parent1, 1..cut_point)] :
        cut_point \in 1..(total_rounds - 1)}

(* The directed key (home_team_id, away_team_id) of the uniform crossover *)
key(m) == <<m.home_team_id, m.away_team_id>>

(* The dict built by `for match in parent.matches: d[key] = match`: the   *)
(* last match of each key                                                 *)
matchups_of(h, parent) ==
    [k \in {key(h[a]) : a \in Addresses(parent)} |->
        parent[CHOOSE i \in 1..Len(parent) :
                  /\ key(h[parent[i]]) = k
                  /\ \A j \in 1..Len(parent) : key(h[parent[j]]) = k => j <= i]]

(* The orders in which a set may be iterated *)
Orders(S) == {o \in [1..Cardinality(S) -> S] : \A x \in S : \E i \in DOMAIN o : o[i] = x}

(* Offspring 1 of the loop `for matchup in all_matchups`: for a matchup in *)
(* from_p1 the match of parent 1 (if it has one), else that of parent 2    *)
RECURSIVE Interleave(_, _, _, _)
Interleave(order, d1, d2, from_p1) ==
    IF order = <<>> THEN <<>>
    ELSE (IF Head(order) \in from_p1
          THEN (IF Head(order) \in DOMAIN d1 THEN <<d1[Head(order)]>> ELSE <<>>)
          ELSE (IF Head(order) \in DOMAIN d2 THEN <<d2[Head(order)]>> ELSE <<>>))
         \o Interleave(Tail(order), d1, d2, from_p1)

crossover_uniform(h, parent1, parent2) ==
    LET p1_matchups == matchups_of(h, parent1)
        p2_matchups == matchups_of(h, parent2)
        all_matchups == DOMAIN p1_matchups \cup DOMAIN p2_matchups
    IN  {[heap |-> h,
          offspring1 |-> Interleave(res[1], p1_matchups, p2_matchups, res[2]),
          offspring2 |-> Interleave(res[1], p2_matchups, p1_matchups, res[2])] :
            res \in Orders(all_matchups) \X SUBSET all_matchups}

----------------------------------------------------------------------------
(* One call of a crossover operator on two parents                         *)

(* Longest parent handed to a crossover *)
MaxParentLen == 2

InitCross ==
    /\ IdleGA
    /\ rng = 0
    /\ optimizers = <<>>
    /\ teams = 1..2
    /\ ls = NoSearch
    /\ \E parent1 \in MatchLists(MaxParentLen, HomeStadium),
          parent2 \in MatchLists(MaxParentLen, HomeStadium) :
         /\ heap = parent1 \o parent2
         /\ inputs = <<Block(0, Len(parent1)), Block(Len(parent1), Len(parent2))>>
         /\ given = <<parent1, parent2>>
    /\ outputs = <<>>
    /\ op = "none"

(* The crossover `name` returns one of `results` *)
Return2(name, results) ==
    /\ op = "none"
    /\ \E res \in results :
         /\ heap' = res.heap
         /\ outputs' = <<res.offspring1, res.offspring2>>
    /\ op' = name
    /\ UNCHANGED <<teams, inputs, given, ls, varsRng>>
    /\ UNCHANGED varsGA

CrossoverRoundSwap ==
    Return2("crossover_round_swap", crossover_round_swap(heap, inputs[1], inputs[2]))

CrossoverUniform ==
    Return2("crossover_uniform", crossover_uniform(heap, inputs[1], inputs[2]))

CrossoverSinglePoint ==
    Return2("crossover_single_point", crossover_single_point(heap, inputs[1], inputs[2]))

NextCross ==
    \/ CrossoverRoundSwap
    \/ CrossoverUniform
    \/ CrossoverSinglePoint

SpecCross == InitCross /\ [][NextCross]_vars

Crossovers == {"crossover_round_swap", "crossover_uniform", "crossover_single_point"}

(* C7: for each of the three crossovers and any two parents, each directed *)
(* matchup (home, away) appears at most once in each of the two offspring. *)
C7_DirectedMatchupAtMostOnce ==
    op \in Crossovers =>
        \A k \in 1..2 :
            \A i, j \in 1..Len(outputs[k]) :
                key(heap[outputs[k][i]]) = key(heap[outputs[k][j]]) => i = j

(* C7 witness: both parents hold the directed matchup (1, 2), one of them  *)
(* twice, and an offspring of the crossover holds it.                      *)
C7_Witness ==
    /\ op \in Crossovers
    /\ Len(given[1]) = 2
    /\ key(given[1][1]) = <<1, 2>> /\ key(given[1][2]) = <<1, 2>>
    /\ \E i \in 1..Len(given[2]) : key(given[2][i]) = <<1, 2>>
    /\ \E i \in 1..Len(outputs[1]) : key(heap[outputs[1][i]]) = <<1, 2>>

(* C8: every crossover and mutation operator (and apply_mutation) returns  *)
(* schedules that share no match record with its inputs or with each       *)
(* other, and leaves its inputs unchanged.                                 *)
C8_NoSharedMatchRecord ==
    op # "none" =>
        /\ \A k \in 1..Len(outputs), n \in 1..Len(inputs) :
              Addresses(outputs[k]) \cap Addresses(inputs[n]) = {}
        /\ \A k, l \in 1..Len(outputs) :
              k # l => Addresses(outputs[k]) \cap Addresses(outputs[l]) = {}
        /\ \A n \in 1..Len(inputs) : Deref(heap, inputs[n]) = given[n]

----------------------------------------------------------------------------
(* Hard constraints (HardConstraints): the violation count of each check   *)
(* on the list ms of Match objects of a schedule                           *)

(* The sum of f[x] over the set S *)
RECURSIVE Sum(_, _)
Sum(f, S) ==
    IF S = {} THEN 0
    ELSE LET x == CHOOSE y \in S : TRUE IN f[x] + Sum(f, S \ {x})

Indices(ms) == 1..Len(ms)

(* The keys of the dict `rounds`: the round numbers that hold a match *)
rounds_of(ms) == {ms[i].round_number : i \in Indices(ms)}

InRound(ms, r) == {i \in Indices(ms) : ms[i].round_number = r}

check_all_matchups_exist(ms) ==
    Sum([p \in teams \X teams |->
            IF p[1] # p[2]
            THEN Abs(Cardinality({i \in Indices(ms) : key(ms[i]) = p}) - 1)
            ELSE 0],
        teams \X teams)

check_no_consecutive_same_opponent(ms) ==
    Sum([round_num \in 1..(total_rounds - 1) |->
            IF round_num \notin rounds_of(ms) \/ (round_num + 1) \notin rounds_of(ms)
            THEN 0
            ELSE Cardinality({i \in InRound(ms, round_num + 1) :
                                 \E j \in InRound(ms, round_num) :
                                     matchup(ms[j]) = matchup(ms[i])})],
        1..(total_rounds - 1))

(* How often team t appears in the matches at the indices I *)
Appearances(ms, I, t) ==
    Cardinality({i \in I : ms[i].home_team_id = t})
      + Cardinality({i \in I : ms[i].away_team_id = t})

check_one_match_per_team_per_round(ms) ==
    Sum([r \in rounds_of(ms) |->
            Sum([t \in teams |-> Abs(Appearances(ms, InRound(ms, r), t) - 1)], teams)],
        rounds_of(ms))

(* shared_stadiums: {stadium_id: [team_ids]}; no stadium is shared here *)
shared_stadiums == [stadium \in {} |-> <<>>]

check_shared_stadium_conflict(ms) ==
    IF DOMAIN shared_stadiums = {} THEN 0
    ELSE Sum([r \in rounds_of(ms) |->
                Sum([stadium \in DOMAIN shared_stadiums |->
                        LET teams_using == {i \in InRound(ms, r) : ms[i].stadium_id = stadium}
                        IN  IF Cardinality(teams_using) > 1
                            THEN Cardinality(teams_using) - 1 ELSE 0],
                    DOMAIN shared_stadiums)],
             rounds_of(ms))

check_correct_home_stadium(ms) ==
    Cardinality({i \in Indices(ms) : ms[i].stadium_id # home_stadium_id(ms[i].home_team_id)})

check_total_matches(ms) == Abs(n_teams * (n_teams - 1) - Len(ms))

check_matches_per_round(ms) ==
    Sum([r \in rounds_of(ms) |-> Abs(Cardinality(InRound(ms, r)) - n_teams \div 2)],
        rounds_of(ms))

check_all_hard_constraints(ms) ==
    [all_matchups |-> check_all_matchups_exist(ms),
     no_consecutive |-> check_no_consecutive_same_opponent(ms),
     one_match_per_round |-> check_one_match_per_team_per_round(ms),
     stadium_conflict |-> check_shared_stadium_conflict(ms),
     correct_stadium |-> check_correct_home_stadium(ms),
     total_matches |-> check_total_matches(ms),
     matches_per_round |-> check_matches_per_round(ms)]

(* GAConfig.penalty_weights *)
penalty_weights ==
    [all_matchups |-> 1000, no_consecutive |-> 500, one_match_per_round |-> 1000,
     stadium_conflict |-> 800, correct_stadium |-> 500, total_matches |-> 1000,
     matches_per_round |-> 1000]

(* The penalties of FitnessEvaluator.evaluate *)
penalties(ms) ==
    LET details == check_all_hard_constraints(ms)
    IN  Sum([name \in DOMAIN details |-> details[name] * penalty_weights[name]],
            DOMAIN details)

----------------------------------------------------------------------------
(* Soft constraints (SoftConstraints): scores 0..100                       *)

(* Team.city of the teams 1, 2, 3, 4 *)
city == <<"Ha Noi", "Da Nang", "TP.HCM", "Hai Phong">>

(* distances: {(city, city): km}; a pair the dict lacks counts 0 *)
distances ==
    [p \in {<<"Ha Noi", "Da Nang">>, <<"Da Nang", "Ha Noi">>} |-> 770] @@
    [p \in {<<"Ha Noi", "TP.HCM">>, <<"TP.HCM", "Ha Noi">>} |-> 1720] @@
    [p \in {<<"Da Nang", "TP.HCM">>, <<"TP.HCM", "Da Nang">>} |-> 960]

(* derby_pairs *)
derby_pairs == {<<1, 2>>}

(* sorted(matches, key=round_number): a stable sort *)
SortedByRound(ms) ==
    LET before(i, j) == \/ ms[i].round_number < ms[j].round_number
                        \/ ms[i].round_number = ms[j].round_number /\ i < j
        rank(i) == 1 + Cardinality({j \in Indices(ms) : before(j, i)})
    IN  [k \in Indices(ms) |-> ms[CHOOSE i \in Indices(ms) : rank(i) = k]]

(* sorted(schedule.get_matches_by_team(team_id), key=round_number) *)
team_matches_sorted(ms, t) ==
    SortedByRound(SelectSeq(ms, LAMBDA m : t \in {m.home_team_id, m.away_team_id}))

(* The longest run of flag values equal to v *)
RECURSIVE MaxConsecutive(_, _, _, _)
MaxConsecutive(flags, v, consecutive, max_consecutive) ==
    IF flags = <<>> THEN max_consecutive
    ELSE LET c == IF Head(flags) = v THEN consecutive + 1 ELSE 0
         IN  MaxConsecutive(Tail(flags), v, c, Max2(max_consecutive, c))

evaluate_home_away_balance(ms) ==
    LET penalty(t) ==
            LET sorted == team_matches_sorted(ms, t)
                at_home == [i \in 1..Len(sorted) |-> sorted[i].home_team_id = t]
                max_home == MaxConsecutive(at_home, TRUE, 0, 0)
                max_away == MaxConsecutive(at_home, FALSE, 0, 0)
            IN  (IF max_home > 3 THEN (max_home - 3) * 5 ELSE 0)
                  + (IF max_away > 3 THEN (max_away - 3) * 5 ELSE 0)
    IN  Max2(0, 100 - Sum([t \in teams |-> penalty(t)], teams))

expected_distance == 182000

evaluate_travel_distance(ms) ==
    LET distance(i) ==
            LET pair == <<city[ms[i].away_team_id], city[ms[i].home_team_id]>>
            IN  IF pair \in DOMAIN distances THEN distances[pair] ELSE 0
        total_distance == Sum([i \in Indices(ms) |-> distance(i) * 2], Indices(ms))
    IN  IF total_distance <= expected_distance THEN 100
        ELSE Max2(0, 100 - ((total_distance - expected_distance) * 50) \div expected_distance)

_get_region(c) ==
    IF c \in {"Ha Noi", "Nam Dinh", "Hai Phong"} THEN "North"
    ELSE IF c \in {"Ha Tinh", "Vinh", "Da Nang", "Tam Ky", "Quy Nhon"} THEN "Central"
    ELSE IF c \in {"Pleiku", "Nha Trang", "TP.HCM", "Thu Dau Mot"} THEN "South"
    ELSE "Unknown"

evaluate_competitive_balance(ms) ==
    LET penalty(t) ==
            LET sorted == team_matches_sorted(ms, t)
                opponent(i) == IF sorted[i].home_team_id = t
                               THEN sorted[i].away_team_id ELSE sorted[i].home_team_id
            IN  5 * Cardinality({i \in 1..(Len(sorted) - 2) :
                        Cardinality({_get_region(city[opponent(i + j)]) : j \in 0..2}) = 1})
    IN  Max2(0, 100 - Sum([t \in teams |-> penalty(t)], teams))

(* The number of neighbours in the sorted list of rounds whose gap satisfies far *)
Gaps(sorted, far(_)) ==
    Cardinality({i \in 1..(Len(sorted) - 1) :
                    far(sorted[i + 1].round_number - sorted[i].round_number)})

evaluate_derby_distribution(ms) ==
    LET derbies == SelectSeq(ms, LAMBDA m :
                       \E p \in derby_pairs : matchup(m) = {p[1], p[2]})
    IN  Max2(0, 100 - 10 * Gaps(SortedByRound(derbies), LAMBDA gap : gap < 3))

evaluate_rest_days_fairness(ms) ==
    Max2(0, 100 - 5 * Sum([t \in teams |->
                              Gaps(team_matches_sorted(ms, t), LAMBDA gap : gap > 1)],
                          teams))

(* evaluate_all_soft_constraints: derby_distribution only with derby pairs *)
evaluate_all_soft_constraints(ms) ==
    LET results == [home_away_balance |-> evaluate_home_away_balance(ms),
                    travel_distance |-> evaluate_travel_distance(ms),
                    competitive_balance |-> evaluate_competitive_balance(ms),
                    rest_days_fairness |-> evaluate_rest_days_fairness(ms)]
    IN  IF derby_pairs # {}
        THEN results @@ [derby_distribution |-> evaluate_derby_distribution(ms)]
        ELSE results

(* GAConfig.soft_weights, in hundredths *)
soft_weights ==
    [home_away_balance |-> 25, travel_distance |-> 30, competitive_balance |-> 20,
     rest_days_fairness |-> 15, derby_distribution |-> 10]

(* get_weighted_score returns total_score / total_weight; the two parts *)
get_weighted_score(results) ==
    LET keys == DOMAIN results \cap DOMAIN soft_weights
    IN  [total_score |-> Sum([k \in keys |-> results[k] * soft_weights[k]], keys),
         total_weight |-> Sum([k \in keys |-> soft_weights[k]], keys)]

(* FitnessEvaluator.evaluate: fitness = soft_score - penalties.  The value *)
(* here is fitness * total_weight, an integer that orders schedules as the *)
(* fitness does (total_weight is the same positive number for every        *)
(* schedule); soft_score is 0 when total_weight is 0.                      *)
evaluate(ms) ==
    LET soft == get_weighted_score(evaluate_all_soft_constraints(ms))
    IN  IF soft.total_weight > 0
        THEN soft.total_score - soft.total_weight * penalties(ms)
        ELSE 0 - penalties(ms)

----------------------------------------------------------------------------
(* One call of GAOptimizer._local_search_one on an individual              *)

(* The default of the parameter n_iterations *)
n_iterations == 10

(* Longest individual handed to the local search *)
MaxIndividual == 3

DirectedMatchups == {p \in teams \X teams : p[1] # p[2]}

(* Position of a directed matchup in the order `for home: for away` *)
KeyOrder(p) == (p[1] - 1) * n_teams + p[2]

(* The individuals of at most n matches: distinct directed matchups in the *)
(* order above, each at its home team's stadium, in any rounds             *)
Individuals(n) ==
    UNION {
      LET k == Cardinality(K)
          nth(i) == CHOOSE p \in K : Cardinality({q \in K : KeyOrder(q) < KeyOrder(p)}) = i - 1
      IN  {[i \in 1..k |->
               [id |-> i, home_team_id |-> nth(i)[1], away_team_id |-> nth(i)[2],
                stadium_id |-> home_stadium_id(nth(i)[1]), round_number |-> r[i]]] :
             r \in [1..k -> Rounds]}
      : K \in {X \in SUBSET DirectedMatchups : Cardinality(X) <= n}}

InitLS ==
    /\ IdleGA
    /\ rng = 0
    /\ optimizers = <<>>
    /\ teams = 1..3
    /\ heap \in Individuals(MaxIndividual)
    /\ inputs = <<Block(0, Len(heap))>>
    /\ outputs = <<>>
    /\ op = "none"
    /\ given = <<heap>>
    /\ ls = NoSearch

(* Variant of Accept that takes every neighbour *)
AcceptAny(neighbor_fitness, current_fitness) == TRUE

(* `if neighbor_fitness > current_fitness` *)
Accept(neighbor_fitness, current_fitness) == neighbor_fitness > current_fitness

(* current = schedule.clone(); current_fitness = evaluate(current)[0] *)
LocalSearchStart ==
    /\ ls.pc = "idle"
    /\ op = "none"
    /\ LET c == clone(heap, inputs[1])
       IN  /\ heap' = c.heap
           /\ ls' = [pc |-> "loop", iteration |-> 0, current |-> c.schedule,
                     current_fitness |-> evaluate(Deref(c.heap, c.schedule))]
    /\ op' = "_local_search_one"
    /\ UNCHANGED <<teams, inputs, outputs, given, varsRng>>
    /\ UNCHANGED varsGA

(* One pass of `for _ in range(n_iterations)`.  The Match objects that no *)
(* schedule refers to any more are freed: the heap keeps the input's and   *)
(* the objects of the new `current`.                                       *)
LocalSearchIteration ==
    /\ ls.pc = "loop"
    /\ ls.iteration < n_iterations
    /\ \E neighbor \in mutate_swap_matches(heap, ls.current) :
         \E neighbor_fitness \in {evaluate(Deref(neighbor.heap, neighbor.schedule))} :
           LET accepted == Accept(neighbor_fitness, ls.current_fitness)
               current == IF accepted THEN neighbor.schedule ELSE ls.current
           IN  /\ heap' = Deref(neighbor.heap, inputs[1]) \o Deref(neighbor.heap, current)
               /\ ls' = [ls EXCEPT !.iteration = @ + 1,
                                   !.current = Block(Len(inputs[1]), Len(current)),
                                   !.current_fitness =
                                       IF accepted THEN neighbor_fitness ELSE @]
    /\ UNCHANGED <<teams, inputs, outputs, op, given, varsRng>>
    /\ UNCHANGED varsGA

(* ind = _schedule_to_individual(current); ind.fitness.values =            *)
(* (current_fitness,); return ind                                          *)
LocalSearchReturn ==
    /\ ls.pc = "loop"
    /\ ls.iteration = n_iterations
    /\ outputs' = <<ls.current>>
    /\ ls' = [ls EXCEPT !.pc = "returned"]
    /\ UNCHANGED <<teams, heap, inputs, op, given, varsRng>>
    /\ UNCHANGED varsGA

NextLS ==
    \/ LocalSearchStart
    \/ LocalSearchIteration
    \/ LocalSearchReturn

SpecLS == InitLS /\ [][NextLS]_vars

(* C9: one call of the hill-climbing local search returns an individual    *)
(* whose fitness is at least the fitness of the input; the recorded        *)
(* fitness of the result equals the evaluation of its matches; the input   *)
(* individual is unchanged.                                                *)
C9_LocalSearchNoWorse ==
    ls.pc = "returned" =>
        /\ ls.current_fitness >= evaluate(given[1])
        /\ ls.current_fitness = evaluate(Deref(heap, outputs[1]))
        /\ Deref(heap, inputs[1]) = given[1]

(* C9 witness: the local search returned an individual fitter than its     *)
(* input.                                                                  *)
C9_Witness ==
    /\ ls.pc = "returned"
    /\ ls.current_fitness > evaluate(given[1])
    /\ Deref(heap, outputs[1]) # given[1]

----------------------------------------------------------------------------
(* Optimizers in one process and the random module they share              *)

(* The generator has RngModulus states; a draw returns the state it        *)
(* reaches (a stand-in for the Mersenne Twister behind random.random())    *)
RngModulus == 16

RngStates == 0..(RngModulus - 1)

(* random.seed(x) *)
seed(x) == x % RngModulus

(* One draw: the next state, which is also the value drawn *)
next_random(state) == (5 * state + 3) % RngModulus

(* The draws one optimize() consumes *)
DrawsPerRun == 2

(* The list of the next k draws from `state` *)
RECURSIVE Draws(_, _)
Draws(state, k) ==
    IF k = 0 THEN <<>> ELSE <<next_random(state)>> \o Draws(next_random(state), k - 1)

(* The state after k draws *)
RECURSIVE After(_, _)
After(state, k) == IF k = 0 THEN state ELSE After(next_random(state), k - 1)

(* random_seed = None *)
NoSeed == -1

Seeds == {1, 2}

(* Optimizers 1 and 2 are built with the same random_seed and inputs; 3 is *)
(* any other optimizer of the process                                      *)
Optimizers == 1..3

InitRng ==
    /\ IdleGA
    /\ teams = 1..2
    /\ ls = NoSearch
    /\ heap = <<>>
    /\ inputs = <<>>
    /\ outputs = <<>>
    /\ op = "none"
    /\ given = <<>>
    /\ rng \in RngStates
    /\ \E same \in Seeds, other \in Seeds \cup {NoSeed} :
         optimizers = [i \in Optimizers |->
                          [random_seed |-> IF i = 3 THEN other ELSE same,
                           pc |-> "unbuilt", result |-> <<>>]]

(* GAOptimizer.__init__: seeds the random module when random_seed is set *)
Construct(i) ==
    /\ optimizers[i].pc = "unbuilt"
    /\ rng' = IF optimizers[i].random_seed # NoSeed
              THEN seed(optimizers[i].random_seed) ELSE rng
    /\ optimizers' = [optimizers EXCEPT ![i].pc = "constructed"]
    /\ UNCHANGED <<teams, heap, inputs, outputs, op, given, ls>>
    /\ UNCHANGED varsGA

(* optimize(): every random choice of the run (seeders, selection,         *)
(* crossover, mutation, repair) is a draw from the random module; the      *)
(* best schedule and the history it returns are decided by these draws     *)
Run(i) ==
    /\ optimizers[i].pc = "constructed"
    /\ optimizers' = [optimizers EXCEPT ![i].pc = "done",
                                        ![i].result = Draws(rng, DrawsPerRun)]
    /\ rng' = After(rng, DrawsPerRun)
    /\ UNCHANGED <<teams, heap, inputs, outputs, op, given, ls>>
    /\ UNCHANGED varsGA

NextRng == \E i \in Optimizers : Construct(i) \/ Run(i)

SpecRng == InitRng /\ [][NextRng]_vars

(* C10: two optimizers built with the same random_seed and the same inputs *)
(* produce the same best schedule and the same history, whatever the order *)
(* in which they are constructed and run, and whatever other optimizer     *)
(* runs in between.                                                        *)
C10_SameSeedSameResult ==
    (optimizers[1].pc = "done" /\ optimizers[2].pc = "done") =>
        optimizers[1].result = optimizers[2].result

----------------------------------------------------------------------------
(* Seeders (PopulationInitializer, ScheduleEncoding).  A seeder returns    *)
(* the list of its schedule's Match objects.  The lineup is teams = 1..N,  *)
(* so self.teams[i].id = i + 1.  random.shuffle is the Fisher-Yates loop   *)
(* of the random module over the generator's draws: a seeder's result is   *)
(* [matches, state], state being the generator's state when it returns.    *)

matches_per_round == n_teams \div 2

(* ScheduleEncoding.create_all_possible_matches: round_number=0 throughout *)
create_all_possible_matches ==
    [k \in 1..(n_teams * (n_teams - 1)) |->
        LET i == (k - 1) \div (n_teams - 1) + 1
            jj == ((k - 1) % (n_teams - 1)) + 1
            j == IF jj < i THEN jj ELSE jj + 1
        IN  [id |-> k, home_team_id |-> i, away_team_id |-> j,
             stadium_id |-> home_stadium_id(i), round_number |-> 0]]

(* random.shuffle(x), from position i down:                                *)
(*   for i in reversed(range(1, len(x))): j = randbelow(i + 1); swap       *)
RECURSIVE shuffle_from(_, _, _)
shuffle_from(x, i, state) ==
    IF i < 2 THEN [list |-> x, state |-> state]
    ELSE LET j == (next_random(state) % i) + 1
         IN  shuffle_from([x EXCEPT ![i] = x[j], ![j] = x[i]], i - 1, next_random(state))

shuffle(x, state) == shuffle_from(x, Len(x), state)

(* Match(id=match.id, ..., round_number=round_num) *)
InRoundNumber(match, round_num) == [match EXCEPT !.round_number = round_num]

(* The loop of create_random_schedule from all_matches[k] on: a match one  *)
(* of whose teams already plays in the current round is skipped for good   *)
RECURSIVE place_random(_, _, _, _, _, _)
place_random(all_matches, k, schedule, round_num, teams_in_round, round_match_count) ==
    IF k > Len(all_matches) THEN schedule
    ELSE LET match == all_matches[k]
             full == round_match_count + 1 = matches_per_round
         IN  IF match.home_team_id \notin teams_in_round /\ match.away_team_id \notin teams_in_round
             THEN place_random(all_matches, k + 1,
                               Append(schedule, InRoundNumber(match, round_num)),
                               IF full THEN round_num + 1 ELSE round_num,
                               IF full THEN {}
                               ELSE teams_in_round \cup {match.home_team_id, match.away_team_id},
                               IF full THEN 0 ELSE round_match_count + 1)
             ELSE place_random(all_matches, k + 1, schedule, round_num, teams_in_round,
                               round_match_count)

create_random_schedule(state) ==
    LET shuffled == shuffle(create_all_possible_matches, state)
    IN  [matches |-> place_random(shuffled.list, 1, <<>>, 1, {}, 0), state |-> shuffled.state]

(* The concatenation of the lists in the list ss *)
RECURSIVE Concat(_)
Concat(ss) == IF ss = <<>> THEN <<>> ELSE Head(ss) \o Concat(Tail(ss))

(* ScheduleEncoding.create_round_robin_groups, circle method.  With an odd *)
(* lineup a dummy None (0 here) is appended and its pairs are left out.    *)
(* team_indices holds 0-based indices into teams.                          *)
RECURSIVE round_robin_rounds(_, _, _)
round_robin_rounds(team_indices, round_num, n) ==
    IF round_num >= n - 1 THEN <<>>
    ELSE LET team(idx) == IF idx < n_teams THEN idx + 1 ELSE 0
             pair(i) == LET team1 == team(team_indices[i])
                            team2 == team(team_indices[n + 1 - i])
                        IN  IF round_num % 2 = 0 THEN <<team1, team2>> ELSE <<team2, team1>>
             round_matches == SelectSeq([i \in 1..(n \div 2) |-> pair(i)],
                                        LAMBDA p : p[1] # 0 /\ p[2] # 0)
             rotated == <<team_indices[1], team_indices[n]>> \o SubSeq(team_indices, 2, n - 1)
         IN  <<round_matches>> \o round_robin_rounds(rotated, round_num + 1, n)

create_round_robin_groups ==
    LET n == IF n_teams % 2 = 1 THEN n_teams + 1 ELSE n_teams
    IN  round_robin_rounds([i \in 1..n |-> i - 1], 0, n)

(* The first round number of the second leg: enumerate(first_leg_rounds, 14) *)
second_leg_start == 14

(* create_round_robin_schedule: the first leg in rounds 1.., then the same *)
(* pairs with home and away exchanged in rounds second_leg_start..; ids    *)
(* count along the list                                                    *)
create_round_robin_schedule ==
    LET first_leg_rounds == create_round_robin_groups
        first == Concat([r \in 1..Len(first_leg_rounds) |->
                    [p \in 1..Len(first_leg_rounds[r]) |->
                        [home_team_id |-> first_leg_rounds[r][p][1],
                         away_team_id |-> first_leg_rounds[r][p][2],
                         stadium_id |-> home_stadium_id(first_leg_rounds[r][p][1]),
                         round_number |-> r]]])
        second == Concat([r \in 1..Len(first_leg_rounds) |->
                    [p \in 1..Len(first_leg_rounds[r]) |->
                        [home_team_id |-> first_leg_rounds[r][p][2],
                         away_team_id |-> first_leg_rounds[r][p][1],
                         stadium_id |-> home_stadium_id(first_leg_rounds[r][p][2]),
                         round_number |-> second_leg_start + r - 1]]])
        both == first \o second
    IN  [match_id \in 1..Len(both) |-> Match(match_id, both[match_id])]

(* create_balanced_schedule: the shuffles of the per-team lists, team by   *)
(* team from team t on                                                     *)
RECURSIVE shuffle_team_lists(_, _, _, _)
shuffle_team_lists(t, team_home_matches, team_away_matches, state) ==
    IF t > n_teams
    THEN [home |-> team_home_matches, away |-> team_away_matches, state |-> state]
    ELSE LET h == shuffle(team_home_matches[t], state)
             a == shuffle(team_away_matches[t], h.state)
         IN  shuffle_team_lists(t + 1, [team_home_matches EXCEPT ![t] = h.list],
                                [team_away_matches EXCEPT ![t] = a.list], a.state)

(* One round of create_balanced_schedule, from available_teams[k] on.  The *)
(* match a team pops leaves that team's list whether it is placed or not,  *)
(* and stays in the list of its opponent.                                  *)
RECURSIVE balanced_round(_, _, _, _, _, _, _, _)
balanced_round(available_teams, k, home_priority, round_num, team_home_matches, team_away_matches, round_matches, teams_in_round) ==
    IF k > Len(available_teams)
    THEN [home |-> team_home_matches, away |-> team_away_matches,
          round_matches |-> round_matches]
    ELSE
      LET team_id == available_teams[k]
          from == IF team_id \in home_priority /\ team_home_matches[team_id] # <<>> THEN "home"
                  ELSE IF team_away_matches[team_id] # <<>> THEN "away"
                  ELSE IF team_home_matches[team_id] # <<>> THEN "home"
                  ELSE "none"
          match == IF from = "home" THEN Head(team_home_matches[team_id])
                   ELSE Head(team_away_matches[team_id])
          home2 == IF from = "home"
                   THEN [team_home_matches EXCEPT ![team_id] = Tail(@)] ELSE team_home_matches
          away2 == IF from = "away"
                   THEN [team_away_matches EXCEPT ![team_id] = Tail(@)] ELSE team_away_matches
          opponent_id == IF match.home_team_id = team_id
                         THEN match.away_team_id ELSE match.home_team_id
      IN  IF team_id \in teams_in_round \/ from = "none"
          THEN balanced_round(available_teams, k + 1, home_priority, round_num,
                              team_home_matches, team_away_matches, round_matches,
                              teams_in_round)
          ELSE IF opponent_id \notin teams_in_round
          THEN balanced_round(available_teams, k + 1, home_priority, round_num, home2, away2,
                              Append(round_matches, InRoundNumber(match, round_num)),
                              teams_in_round \cup {team_id, opponent_id})
          ELSE balanced_round(available_teams, k + 1, home_priority, round_num, home2, away2,
                              round_matches, teams_in_round)

(* while round_num <= self.total_rounds *)
RECURSIVE balanced_rounds(_, _, _, _, _)
balanced_rounds(round_num, team_home_matches, team_away_matches, schedule, state) ==
    IF round_num > total_rounds THEN [matches |-> schedule, state |-> state]
    ELSE LET available_teams == shuffle([i \in 1..n_teams |-> i], state)
             home_priority == {available_teams.list[i] : i \in 1..(n_teams \div 2)}
             round == balanced_round(available_teams.list, 1, home_priority, round_num,
                                     team_home_matches, team_away_matches, <<>>, {})
         IN  balanced_rounds(round_num + 1, round.home, round.away,
                             schedule \o round.round_matches, available_teams.state)

create_balanced_schedule(state) ==
    LET all_matches == create_all_possible_matches
        lists == shuffle_team_lists(1,
                    [t \in teams |-> SelectSeq(all_matches, LAMBDA m : m.home_team_id = t)],
                    [t \in teams |-> SelectSeq(all_matches, LAMBDA m : m.away_team_id = t)],
                    state)
    IN  balanced_rounds(1, lists.home, lists.away, <<>>, lists.state)

(* One round of create_stadium_aware_schedule: the scan of all_matches[:]  *)
(* from position k on, until the round is full.  remaining is all_matches  *)
(* without the matches placed in this round.                               *)
RECURSIVE fill_round(_, _, _, _, _)
fill_round(all_matches, k, round_num, round_matches, skipped) ==
    IF k > Len(all_matches) \/ Len(round_matches) = matches_per_round
    THEN [round_matches |-> round_matches,
          remaining |-> skipped \o SubSeq(all_matches, k, Len(all_matches))]
    ELSE LET match == all_matches[k]
             teams_in_round ==
                 UNION {{round_matches[i].home_team_id, round_matches[i].away_team_id} :
                           i \in 1..Len(round_matches)}
             stadiums_in_round == {round_matches[i].stadium_id : i \in 1..Len(round_matches)}
         IN  IF \/ match.home_team_id \in teams_in_round
                \/ match.away_team_id \in teams_in_round
                \/ (match.stadium_id \in DOMAIN shared_stadiums
                      /\ match.stadium_id \in stadiums_in_round)
             THEN fill_round(all_matches, k + 1, round_num, round_matches,
                             Append(skipped, match))
             ELSE fill_round(all_matches, k + 1, round_num,
                             Append(round_matches, InRoundNumber(match, round_num)), skipped)

RECURSIVE stadium_aware_rounds(_, _, _)
stadium_aware_rounds(all_matches, round_num, schedule) ==
    IF round_num > total_rounds THEN schedule
    ELSE LET round == fill_round(all_matches, 1, round_num, <<>>, <<>>)
         IN  stadium_aware_rounds(round.remaining, round_num + 1,
                                  schedule \o round.round_matches)

create_stadium_aware_schedule(state) ==
    LET shuffled == shuffle(create_all_possible_matches, state)
    IN  [matches |-> stadium_aware_rounds(shuffled.list, 1, <<>>), state |-> shuffled.state]

----------------------------------------------------------------------------
(* Seeders: state machine.  Each action is one call of a seeder on the     *)
(* lineup; heap and outputs hold the schedule it returned.                 *)

(* The lineups the components are built with: 2 and 4 teams *)
Lineups == {1..2, 1..4}

InitSeed ==
    /\ IdleGA
    /\ teams \in Lineups
    /\ rng \in RngStates
    /\ optimizers = <<>>
    /\ ls = NoSearch
    /\ heap = <<>>
    /\ inputs = <<>>
    /\ outputs = <<>>
    /\ op = "none"
    /\ given = <<>>

(* The seeder `name` returns the schedule of `matches` and leaves the      *)
(* generator in `state`                                                    *)
Seed(name, matches, state) ==
    /\ heap' = matches
    /\ outputs' = <<Block(0, Len(matches))>>
    /\ op' = name
    /\ rng' = state
    /\ UNCHANGED <<teams, inputs, given, ls, optimizers>>
    /\ UNCHANGED varsGA

CreateRandomSchedule ==
    \E s \in {create_random_schedule(rng)} :
        Seed("create_random_schedule", s.matches, s.state)

CreateRoundRobinSchedule ==
    Seed("create_round_robin_schedule", create_round_robin_schedule, rng)

CreateBalancedSchedule ==
    \E s \in {create_balanced_schedule(rng)} :
        Seed("create_balanced_schedule", s.matches, s.state)

CreateStadiumAwareSchedule ==
    \E s \in {create_stadium_aware_schedule(rng)} :
        Seed("create_stadium_aware_schedule", s.matches, s.state)

NextSeed ==
    \/ CreateRandomSchedule
    \/ CreateRoundRobinSchedule
    \/ CreateBalancedSchedule
    \/ CreateStadiumAwareSchedule

SpecSeed == InitSeed /\ [][NextSeed]_vars

Seeders == {"create_random_schedule", "create_round_robin_schedule",
            "create_balanced_schedule", "create_stadium_aware_schedule"}

(* Does every team play exactly once in round r of ms, in N/2 matches? *)
RoundComplete(ms, r) ==
    /\ Cardinality(InRound(ms, r)) = matches_per_round
    /\ \A t \in teams : Appearances(ms, InRound(ms, r), t) = 1

(* C11: for an even lineup the round-robin seeder returns N(N-1) matches,  *)
(* exactly one per ordered pair, every round number in 1..2N-2, the first  *)
(* leg (the first half of the list) in rounds 1..N-1 and its mirror, with  *)
(* home and away exchanged, N-1 rounds later in rounds N..2N-2, N/2        *)
(* matches per round with every team playing once, each stadium the home   *)
(* team's.                                                                 *)
C11_RoundRobinComplete ==
    (op = "create_round_robin_schedule" /\ n_teams % 2 = 0) =>
        LET ms == Deref(heap, outputs[1])
            half == (n_teams * (n_teams - 1)) \div 2
        IN  /\ Len(ms) = n_teams * (n_teams - 1)
            /\ \A a \in teams : \A b \in teams \ {a} :
                  Cardinality({i \in Indices(ms) : key(ms[i]) = <<a, b>>}) = 1
            /\ \A i \in Indices(ms) : ms[i].round_number \in Rounds
            /\ \A i \in 1..half :
                  /\ ms[i].round_number \in 1..(n_teams - 1)
                  /\ ms[half + i].home_team_id = ms[i].away_team_id
                  /\ ms[half + i].away_team_id = ms[i].home_team_id
                  /\ ms[half + i].round_number = ms[i].round_number + n_teams - 1
            /\ \A r \in Rounds : RoundComplete(ms, r)
            /\ check_correct_home_stadium(ms) = 0

(* C12: every seeder returns exactly N(N-1) matches, each in the stadium   *)
(* of its home team.                                                       *)
C12_SeedersReturnAllMatches ==
    op \in Seeders =>
        LET ms == Deref(heap, outputs[1])
        IN  /\ Len(ms) = n_teams * (n_teams - 1)
            /\ \A i \in Indices(ms) :
                  ms[i].stadium_id = home_stadium_id(ms[i].home_team_id)

----------------------------------------------------------------------------
(* The initial population (PopulationInitializer.initialize_population).   *)
(* A population is the list of its members, each member given by the       *)
(* strategy that built it.                                                 *)

(* range(k) copies of a member built by `strategy`; none when k <= 0 *)
Copies(k, strategy) == [i \in 1..k |-> strategy]

(* int(population_size * share), the share in thousandths and not negative *)
CountOfShare(population_size, share) == (population_size * share) \div 1000

initialize_population(population_size, strategies) ==
    LET n_random == CountOfShare(population_size, strategies.random)
        n_round_robin == CountOfShare(population_size, strategies.round_robin)
        n_balanced == CountOfShare(population_size, strategies.balanced)
        n_stadium_aware == population_size - n_random - n_round_robin - n_balanced
    IN  Copies(n_random, "random") \o Copies(n_round_robin, "round_robin")
          \o Copies(n_balanced, "balanced") \o Copies(n_stadium_aware, "stadium_aware")

(* The population_size values and the shares (thousandths) a caller passes *)
PopulationSizes == {10, 100, 200}

ShareValues == {0, 5, 200, 400, 500}

(* The configurations with such a size and share mix that validate()      *)
(* accepts; the sums 0.99 and 1.01, which the float comparison of         *)
(* validate() may take either way, are left out                           *)
PopulationConfigs ==
    {c \in {[BaseConfig EXCEPT !.population_size = n, !.init_strategies = s] :
               n \in PopulationSizes,
               s \in [random : ShareValues, round_robin : ShareValues,
                      balanced : ShareValues, stadium_aware : ShareValues]} :
        /\ validate(c) = <<>>
        /\ Abs(init_sum(c.init_strategies) - 1000) < 10}

InitPopulation ==
    /\ IdleOps
    /\ cfg \in PopulationConfigs
    /\ pc = "constructed"
    /\ error = "none"
    /\ gen = 0
    /\ population = EmptyPop
    /\ best_fitness = NegInf
    /\ best_schedule = NoSchedule
    /\ generations_without_improvement = 0
    /\ last_best_fitness = NegInf
    /\ history = [best_fitness |-> <<>>]
    /\ mutated = "unbound"
    /\ members_best = NegInf

(* _initialize_population: the list initialize_population returns *)
BuildPopulation ==
    /\ op = "none"
    /\ outputs' = <<initialize_population(cfg.population_size, cfg.init_strategies)>>
    /\ op' = "initialize_population"
    /\ UNCHANGED <<teams, heap, inputs, given, ls, varsRng>>
    /\ UNCHANGED varsGA

NextPopulation == BuildPopulation

SpecPopulation == InitPopulation /\ [][NextPopulation]_vars

(* C13: the initial population built from the strategy shares has exactly  *)
(* population_size members for every share mix accepted by validation,     *)
(* and every generation keeps the population at that size.                 *)
C13_PopulationSizeFixed ==
    /\ op = "initialize_population" => Len(outputs[1]) = cfg.population_size
    /\ pc \in {"loop", "done"} => Size(population) = cfg.population_size

----------------------------------------------------------------------------
(* Construction of an optimizer (GAOptimizer.__init__) from any            *)
(* configuration a caller may pass, valid or not.  Before the call nothing *)
(* of the optimizer exists: no components (teams = {}), no history, no     *)
(* best schedule.                                                          *)

NotCreated == [kind |-> "not created"]

(* Values of the fields validate() or the loop reads, each with the values *)
(* next to its limits                                                      *)
FieldValues ==
    [ population_size |-> {MinPopulation - 1, MinPopulation},
      n_generations |-> {0, MaxGenerations},
      crossover_prob |-> {-1, 50, 101},
      mutation_prob |-> {-1, 50, 101},
      tournament_size |-> {1, 3, MinPopulation + 1},
      n_elites |-> {-1, 1, MinPopulation},
      init_strategies |-> {[BaseConfig.init_strategies EXCEPT !.random = 380],
                           BaseConfig.init_strategies,
                           [BaseConfig.init_strategies EXCEPT !.random = 420]},
      soft_weights_sum |-> {98, 100, 102},
      early_stopping_patience |-> {0, 2},
      early_stopping_min_improvement |-> {-1, 1},
      local_search_frequency |-> {0, 50} ]

(* The configurations that differ from BaseConfig in at most two fields *)
ConstructorConfigs ==
    UNION {{[BaseConfig EXCEPT ![f] = v, ![g] = w] :
               v \in FieldValues[f], w \in FieldValues[g]} :
           f \in DOMAIN FieldValues, g \in DOMAIN FieldValues}

(* Variant of SeedAfterValidate that seeds whatever validate() returned *)
SeedBeforeValidate(errors, random_seed, state) ==
    IF random_seed # NoSeed THEN seed(random_seed) ELSE state

(* Lines 39-45: `raise ValueError` on errors, else random.seed(random_seed) *)
(* unless the seed is None                                                  *)
SeedAfterValidate(errors, random_seed, state) ==
    IF errors # <<>> THEN state
    ELSE IF random_seed # NoSeed THEN seed(random_seed) ELSE state

InitConstruct ==
    /\ cfg \in ConstructorConfigs
    /\ pc = "unbuilt"
    /\ error = "none"
    /\ gen = 0
    /\ population = EmptyPop
    /\ best_fitness = NotCreated
    /\ best_schedule = NotCreated
    /\ generations_without_improvement = 0
    /\ last_best_fitness = NegInf
    /\ history = NotCreated
    /\ mutated = "unbound"
    /\ members_best = NegInf
    /\ teams = {}
    /\ heap = <<>>
    /\ inputs = <<>>
    /\ outputs = <<>>
    /\ op = "none"
    /\ given = <<>>
    /\ ls = NoSearch
    /\ rng \in RngStates
    /\ \E random_seed \in Seeds \cup {NoSeed} :
          optimizers = <<[random_seed |-> random_seed, pc |-> "unbuilt", result |-> <<>>]>>

(* GAOptimizer.__init__ *)
ConstructOptimizer ==
    /\ pc = "unbuilt"
    /\ \E errors \in {validate(cfg)} :
         /\ pc' = IF errors # <<>> THEN "error" ELSE "constructed"
         /\ error' = IF errors # <<>> THEN "ValueError" ELSE "none"
         /\ rng' = SeedAfterValidate(errors, optimizers[1].random_seed, rng)
         /\ teams' = IF errors # <<>> THEN teams ELSE 1..2
         /\ history' = IF errors # <<>> THEN history ELSE [best_fitness |-> <<>>]
         /\ best_schedule' = IF errors # <<>> THEN best_schedule ELSE NoSchedule
         /\ best_fitness' = IF errors # <<>> THEN best_fitness ELSE NegInf
         /\ optimizers' = [optimizers EXCEPT
                              ![1].pc = IF errors # <<>> THEN "error" ELSE "constructed"]
    /\ UNCHANGED <<cfg, gen, population, generations_without_improvement,
                   last_best_fitness, mutated, members_best>>
    /\ UNCHANGED <<heap, inputs, outputs, op, given, ls>>

NextConstruct ==
    \/ ConstructOptimizer
    \/ InitializePopulation

SpecConstruct == InitConstruct /\ [][NextConstruct]_vars

(* The configurations C14 names *)
ClaimedInvalid(c) ==
    \/ c.population_size < 10
    \/ c.n_generations < 1
    \/ c.crossover_prob < 0 \/ c.crossover_prob > 100
    \/ c.mutation_prob < 0 \/ c.mutation_prob > 100
    \/ c.tournament_size < 2 \/ c.tournament_size > c.population_size
    \/ c.n_elites < 0 \/ c.n_elites >= c.population_size
    \/ Abs(init_sum(c.init_strategies) - 1000) > 10
    \/ Abs(c.soft_weights_sum - 100) > 1

(* C14: constructing an optimizer from a configuration with a size,        *)
(* count, probability or share sum outside its limits ends in a            *)
(* configuration error, with the random module not seeded and no           *)
(* component, population or history created.                               *)
C14_InvalidConfigRejected ==
    [][(pc = "unbuilt" /\ ClaimedInvalid(cfg)) =>
          /\ pc' = "error"
          /\ error' = "ValueError"
          /\ rng' = rng
          /\ teams' = teams
          /\ UNCHANGED <<population, history, best_schedule, best_fitness>>]_vars

(* C14 witness: an invalid configuration with a seed other than the        *)
(* generator's state was rejected.                                         *)
C14_Witness ==
    /\ pc = "error"
    /\ error = "ValueError"
    /\ ClaimedInvalid(cfg)
    /\ optimizers[1].random_seed # NoSeed
    /\ rng # seed(optimizers[1].random_seed)
    /\ history = NotCreated

(* C15: no optimizer is constructed, and no generation loop entered, with  *)
(* early_stopping_patience < 1, local_search_frequency < 1 or              *)
(* early_stopping_min_improvement < 0.                                     *)
C15_LoopFieldsValidated ==
    pc \in {"constructed", "loop", "done"} =>
        /\ cfg.early_stopping_patience >= 1
        /\ cfg.local_search_frequency >= 1
        /\ cfg.early_stopping_min_improvement >= 0

----------------------------------------------------------------------------
(* Repair (ScheduleRepairer).  The helpers work on a heap h and the list s *)
(* of the addresses in a schedule's `matches`; a result is [heap,          *)
(* schedule], and a helper with random choices has a set of results.       *)

(* Schedule.get_matches_by_round: the addresses in list order *)
round_matches_of(h, s, r) == SelectSeq(s, LAMBDA a : h[a].round_number = r)

(* The teams of the matches at the addresses in the list ms *)
teams_in(h, ms) == UNION {{h[ms[i]].home_team_id, h[ms[i]].away_team_id} : i \in 1..Len(ms)}

(* The missing directed matchups in the order `for i: for j`, as new Match *)
(* objects numbered from match_id on, in the rounds `rounds` draws         *)
matches_to_add(h, s) ==
    LET missing == SelectSeq(create_all_possible_matches,
                             LAMBDA m : \A i \in 1..Len(s) : key(h[s[i]]) # key(m))
    IN  {[k \in 1..Len(missing) |->
             [missing[k] EXCEPT !.id = Len(s) + k, !.round_number = rounds[k]]] :
           rounds \in [1..Len(missing) -> Rounds]}

(* _ensure_all_matchups: a new Schedule of the same Match objects plus one *)
(* new object per directed matchup that is absent, in a random round       *)
_ensure_all_matchups(h, s) ==
    {[heap |-> h \o added, schedule |-> s \o Block(Len(h), Len(added))] :
        added \in matches_to_add(h, s)}

_check_one_match_per_team_per_round(h, s) ==
    \A round_num \in Rounds :
        LET round_matches == round_matches_of(h, s, round_num)
        IN  2 * Len(round_matches) = Cardinality(teams_in(h, round_matches))

(* The rounds in which neither team of the match at address a plays *)
free_rounds(h, s, a) ==
    {round_num \in Rounds :
        LET teams_in_round == teams_in(h, round_matches_of(h, s, round_num))
        IN  /\ h[a].home_team_id \notin teams_in_round
            /\ h[a].away_team_id \notin teams_in_round}

(* Variant of _find_available_round without the search: any round *)
_find_random_round(h, s, a) == Rounds

(* _find_available_round: the round numbers it may return for the match at *)
(* address a: the first round in which neither team plays, else any round  *)
_find_available_round(h, s, a) ==
    LET free == {round_num \in Rounds :
                    LET teams_in_round == teams_in(h, round_matches_of(h, s, round_num))
                    IN  /\ h[a].home_team_id \notin teams_in_round
                        /\ h[a].away_team_id \notin teams_in_round}
    IN  IF free # {} THEN {CHOOSE r \in free : \A q \in free : r <= q} ELSE Rounds

(* The loop of _fix_one_match_per_round from round_num on: in each round   *)
(* with a team that plays twice, the first match of such a team is moved   *)
RECURSIVE fix_one_rounds(_, _, _)
fix_one_rounds(h, s, round_num) ==
    IF round_num > total_rounds THEN {h}
    ELSE LET round_matches == round_matches_of(h, s, round_num)
             teams_count(t) == Cardinality({i \in 1..Len(round_matches) :
                                               h[round_matches[i]].home_team_id = t})
                               + Cardinality({i \in 1..Len(round_matches) :
                                               h[round_matches[i]].away_team_id = t})
             violating_teams == {t \in teams : teams_count(t) > 1}
             to_move == SelectSeq(round_matches,
                                  LAMBDA a : \/ h[a].home_team_id \in violating_teams
                                             \/ h[a].away_team_id \in violating_teams)
         IN  IF violating_teams = {} THEN fix_one_rounds(h, s, round_num + 1)
             ELSE UNION {fix_one_rounds([h EXCEPT ![to_move[1]].round_number = new_round],
                                        s, round_num + 1) :
                            new_round \in _find_available_round(h, s, to_move[1])}

_fix_one_match_per_round(h, schedule) ==
    LET c == clone(h, schedule)
    IN  {[heap |-> h2, schedule |-> c.schedule] : h2 \in fix_one_rounds(c.heap, c.schedule, 1)}

_check_no_consecutive_opponents(h, s) ==
    \A round_num \in 1..(total_rounds - 1) :
        LET current_round == round_matches_of(h, s, round_num)
            next_round == round_matches_of(h, s, round_num + 1)
        IN  \A i \in 1..Len(next_round) : \A j \in 1..Len(current_round) :
                matchup(h[next_round[i]]) # matchup(h[current_round[j]])

(* The inner loop of _fix_consecutive_opponents from next_round[k] on:     *)
(* a match whose pair also plays in round_num exchanges round numbers with *)
(* a random match of a random round after round_num + 1                    *)
RECURSIVE fix_consecutive_matches(_, _, _, _, _, _)
fix_consecutive_matches(h, s, round_num, current_matchups, next_round, k) ==
    IF k > Len(next_round) THEN {h}
    ELSE LET match == next_round[k]
             other_rounds == (round_num + 2)..total_rounds
         IN  IF matchup(h[match]) \in current_matchups /\ other_rounds # {}
             THEN UNION {
                    LET target_matches == round_matches_of(h, s, target_round)
                    IN  IF target_matches = <<>>
                        THEN fix_consecutive_matches(h, s, round_num, current_matchups,
                                                     next_round, k + 1)
                        ELSE UNION {fix_consecutive_matches(
                                        SwapRoundNumbers(h, match, target_matches[i]), s,
                                        round_num, current_matchups, next_round, k + 1) :
                                      i \in 1..Len(target_matches)}
                    : target_round \in other_rounds}
             ELSE fix_consecutive_matches(h, s, round_num, current_matchups, next_round, k + 1)

RECURSIVE fix_consecutive_rounds(_, _, _)
fix_consecutive_rounds(h, s, round_num) ==
    IF round_num > total_rounds - 1 THEN {h}
    ELSE LET current_round == round_matches_of(h, s, round_num)
             current_matchups == {matchup(h[current_round[i]]) : i \in 1..Len(current_round)}
         IN  UNION {fix_consecutive_rounds(h2, s, round_num + 1) :
                      h2 \in fix_consecutive_matches(h, s, round_num, current_matchups,
                                                     round_matches_of(h, s, round_num + 1), 1)}

_fix_consecutive_opponents(h, schedule) ==
    LET c == clone(h, schedule)
    IN  {[heap |-> h2, schedule |-> c.schedule] :
            h2 \in fix_consecutive_rounds(c.heap, c.schedule, 1)}

(* The matches of the round that use the stadium, in list order *)
stadium_usage(h, round_matches, stadium_id) ==
    SelectSeq(round_matches, LAMBDA a : h[a].stadium_id = stadium_id)

(* `shared` is the set of keys of self.shared_stadiums *)
_check_stadium_conflicts(h, s, shared) ==
    \/ shared = {}
    \/ \A round_num \in Rounds : \A stadium_id \in shared :
          Len(stadium_usage(h, round_matches_of(h, s, round_num), stadium_id)) <= 1

(* The round numbers it may return for the match at address a: the first   *)
(* round in which the stadium is not used and neither team plays, else any *)
_find_round_without_stadium_conflict(h, s, a, stadium_id) ==
    LET free == {round_num \in Rounds :
                    LET round_matches == round_matches_of(h, s, round_num)
                    IN  /\ stadium_usage(h, round_matches, stadium_id) = <<>>
                        /\ h[a].home_team_id \notin teams_in(h, round_matches)
                        /\ h[a].away_team_id \notin teams_in(h, round_matches)}
    IN  IF free # {} THEN {CHOOSE r \in free : \A q \in free : r <= q} ELSE Rounds

(* The moves of one round of _fix_stadium_conflicts from to_move[k] on *)
RECURSIVE fix_stadium_matches(_, _, _, _)
fix_stadium_matches(h, s, to_move, k) ==
    IF k > Len(to_move) THEN {h}
    ELSE UNION {fix_stadium_matches([h EXCEPT ![to_move[k]].round_number = new_round],
                                    s, to_move, k + 1) :
                  new_round \in _find_round_without_stadium_conflict(
                                   h, s, to_move[k], h[to_move[k]].stadium_id)}

(* The loop of _fix_stadium_conflicts from round_num on: per shared        *)
(* stadium with several matches in the round, in the order the stadiums    *)
(* first appear in the round, all its matches but the first are moved      *)
RECURSIVE fix_stadium_rounds(_, _, _, _)
fix_stadium_rounds(h, s, round_num, shared) ==
    IF round_num > total_rounds THEN {h}
    ELSE LET round_matches == round_matches_of(h, s, round_num)
             first_uses == SelectSeq(round_matches,
                               LAMBDA a : /\ h[a].stadium_id \in shared
                                          /\ stadium_usage(h, round_matches, h[a].stadium_id)[1] = a
                                          /\ Len(stadium_usage(h, round_matches, h[a].stadium_id)) > 1)
             to_move == Concat([i \in 1..Len(first_uses) |->
                                   Tail(stadium_usage(h, round_matches, h[first_uses[i]].stadium_id))])
         IN  UNION {fix_stadium_rounds(h2, s, round_num + 1, shared) :
                      h2 \in fix_stadium_matches(h, s, to_move, 1)}

_fix_stadium_conflicts(h, schedule, shared) ==
    LET c == clone(h, schedule)
    IN  {[heap |-> h2, schedule |-> c.schedule] :
            h2 \in fix_stadium_rounds(c.heap, c.schedule, 1, shared)}

(* quick_repair: clone, then one pass of _fix_one_match_per_round *)
quick_repair(h, schedule) ==
    LET c == clone(h, schedule)
    IN  _fix_one_match_per_round(c.heap, c.schedule)

----------------------------------------------------------------------------
(* Repair: state machine of one call of repair_schedule or quick_repair.   *)
(* While repair_schedule runs, ls holds its position and its locals        *)
(* (repaired, the passes of the current loop, max_iterations) and, once    *)
(* step 3 has begun, the matches `repaired` held at that point, and the    *)
(* keys of the repairer's shared_stadiums.  The Match                      *)
(* objects no schedule refers to any more are freed: the heap keeps the    *)
(* input's objects and those of `repaired`.                                *)

(* Largest max_iterations repair_schedule is called with *)
MaxIterations == 2

(* A feasible schedule of the lineup: the round-robin first leg in rounds  *)
(* 1..N-1 and its mirror in rounds N..2N-2                                 *)
DoubleRoundRobin ==
    [i \in 1..Len(create_round_robin_schedule) |->
        IF create_round_robin_schedule[i].round_number >= second_leg_start
        THEN [create_round_robin_schedule[i] EXCEPT
                 !.round_number = @ - second_leg_start + n_teams]
        ELSE create_round_robin_schedule[i]]

(* The schedules handed to repair.  Two teams: every list of at most       *)
(* MaxMatches matches, whole or without its first match (a crossover       *)
(* leaves such lists: it keeps some of the Match objects of a parent).     *)
(* Four teams: the feasible schedule with its first match moved to any     *)
(* round or exchanged with any other match.                                *)
RepairInputs(feasible) ==
    IF n_teams = 2
    THEN MatchLists(MaxMatches, HomeStadium)
           \cup {Tail(ms) : ms \in MatchLists(MaxMatches, HomeStadium) \ {<<>>}}
    ELSE {[feasible EXCEPT ![1].round_number = new_round] : new_round \in Rounds}
           \cup {SwapRoundNumbers(feasible, 1, idx2) : idx2 \in 2..Len(feasible)}

InitRepair ==
    /\ IdleGA
    /\ rng = 0
    /\ optimizers = <<>>
    /\ teams \in Lineups
    /\ \E feasible \in {DoubleRoundRobin} : heap \in RepairInputs(feasible)
    /\ inputs = <<Block(0, Len(heap))>>
    /\ outputs = <<>>
    /\ op = "none"
    /\ given = <<heap>>
    /\ ls = NoSearch

(* The heap with the input's objects and the objects of the schedule s *)
Kept(h, s) == Deref(h, inputs[1]) \o Deref(h, s)

(* The repairers: with two teams, stadium 1 may be a shared stadium *)
SharedStadiums == IF n_teams = 2 THEN {{}, {1}} ELSE {{}}

(* repaired = schedule.clone(); repaired = self._ensure_all_matchups(repaired) *)
RepairStart ==
    /\ ls.pc = "idle"
    /\ op = "none"
    /\ \E max_iterations \in 1..MaxIterations : \E shared \in SharedStadiums :
         \E r \in _ensure_all_matchups(clone(heap, inputs[1]).heap,
                                       clone(heap, inputs[1]).schedule) :
           /\ heap' = Kept(r.heap, r.schedule)
           /\ ls' = [pc |-> "phase2", repaired |-> Block(Len(inputs[1]), Len(r.schedule)),
                     passes |-> 0, max_iterations |-> max_iterations, phase3_start |-> <<>>,
                     shared_stadiums |-> shared]
    /\ op' = "repair_schedule"
    /\ UNCHANGED <<teams, inputs, outputs, given, varsRng>>
    /\ UNCHANGED varsGA

(* One pass of a loop `for _ in range(max_iterations)` whose check failed: *)
(* repaired becomes one of `results`                                       *)
Pass(results) ==
    /\ ls.passes < ls.max_iterations
    /\ \E r \in results :
         /\ heap' = Kept(r.heap, r.schedule)
         /\ ls' = [ls EXCEPT !.passes = @ + 1,
                             !.repaired = Block(Len(inputs[1]), Len(r.schedule))]
    /\ UNCHANGED <<teams, inputs, outputs, op, given, varsRng>>
    /\ UNCHANGED varsGA

(* Variant of step 2 that makes a pass without looking at the check *)
FixOneMatchAlways ==
    /\ ls.pc = "phase2"
    /\ Pass(_fix_one_match_per_round(heap, ls.repaired))

(* Step 2, lines 42-45 *)
FixOneMatchPass ==
    /\ ls.pc = "phase2"
    /\ ~_check_one_match_per_team_per_round(heap, ls.repaired)
    /\ Pass(_fix_one_match_per_round(heap, ls.repaired))

(* The loop of step 2 ends: its check passed, or max_iterations passes ran *)
FixOneMatchEnd ==
    /\ ls.pc = "phase2"
    /\ _check_one_match_per_team_per_round(heap, ls.repaired)
          \/ ls.passes = ls.max_iterations
    /\ ls' = [ls EXCEPT !.pc = "phase3", !.passes = 0,
                        !.phase3_start = Deref(heap, ls.repaired)]
    /\ UNCHANGED <<teams, heap, inputs, outputs, op, given, varsRng>>
    /\ UNCHANGED varsGA

(* Step 3, lines 48-51 *)
FixConsecutivePass ==
    /\ ls.pc = "phase3"
    /\ ~_check_no_consecutive_opponents(heap, ls.repaired)
    /\ Pass(_fix_consecutive_opponents(heap, ls.repaired))

(* The loop of step 3 ends *)
FixConsecutiveEnd ==
    /\ ls.pc = "phase3"
    /\ _check_no_consecutive_opponents(heap, ls.repaired)
          \/ ls.passes = ls.max_iterations
    /\ ls' = [ls EXCEPT !.pc = "phase4", !.passes = 0]
    /\ UNCHANGED <<teams, heap, inputs, outputs, op, given, varsRng>>
    /\ UNCHANGED varsGA

(* Step 4, lines 54-57 *)
FixStadiumPass ==
    /\ ls.pc = "phase4"
    /\ ~_check_stadium_conflicts(heap, ls.repaired, ls.shared_stadiums)
    /\ Pass(_fix_stadium_conflicts(heap, ls.repaired, ls.shared_stadiums))

(* The loop of step 4 ends and repair_schedule returns `repaired` *)
RepairReturn ==
    /\ ls.pc = "phase4"
    /\ _check_stadium_conflicts(heap, ls.repaired, ls.shared_stadiums)
          \/ ls.passes = ls.max_iterations
    /\ outputs' = <<ls.repaired>>
    /\ ls' = [ls EXCEPT !.pc = "returned"]
    /\ UNCHANGED <<teams, heap, inputs, op, given, varsRng>>
    /\ UNCHANGED varsGA

(* One call of quick_repair, the repair step of a generation (line 158) *)
QuickRepair == Return1("quick_repair", quick_repair(heap, inputs[1]))

NextRepair ==
    \/ RepairStart
    \/ FixOneMatchPass
    \/ FixOneMatchEnd
    \/ FixConsecutivePass
    \/ FixConsecutiveEnd
    \/ FixStadiumPass
    \/ RepairReturn
    \/ QuickRepair

SpecRepair == InitRepair /\ [][NextRepair]_vars

(* get_total_violations: the sum of the seven hard-constraint counts *)
get_total_violations(ms) ==
    LET results == check_all_hard_constraints(ms)
    IN  Sum(results, DOMAIN results)

(* C16: the schedule repair_schedule returns has a total hard-violation    *)
(* count no larger than that of the schedule it was given.                 *)
C16_RepairNeverWorse ==
    (op = "repair_schedule" /\ ls.pc = "returned") =>
        get_total_violations(Deref(heap, outputs[1])) <= get_total_violations(given[1])

(* C20: after the repair step of a generation (quick_repair) the offspring *)
(* holds every directed matchup of the lineup at least once.               *)
C20_RepairStepRestoresMatchups ==
    op = "quick_repair" =>
        \A p \in DirectedMatchups :
            \E i \in 1..Len(outputs[1]) : key(heap[outputs[1][i]]) = p

----------------------------------------------------------------------------
(* Floating point.  A float is a whole number of units of 1/Unit; a value  *)
(* of MantissaBits significant bits at most is representable, and every    *)
(* operation returns the representable value nearest its exact result      *)
(* (ties to even), as IEEE 754 does with 53 bits.                          *)

MantissaBits == 8

FractionBits == 3

RECURSIVE Pow2(_)
Pow2(k) == IF k = 0 THEN 1 ELSE 2 * Pow2(k - 1)

Unit == Pow2(FractionBits)

(* The values below MantissaLimit are all representable *)
MantissaLimit == Pow2(MantissaBits)

(* The distance between neighbouring floats at the magnitude v *)
RECURSIVE Grid(_)
Grid(v) == IF v < MantissaLimit THEN 1 ELSE 2 * Grid(v \div 2)

(* n / d for n >= 0, d > 0, rounded to a whole number, ties to even *)
RoundHalfEven(n, d) ==
    LET q == n \div d
        r == n % d
    IN  IF 2 * r < d THEN q
        ELSE IF 2 * r > d THEN q + 1
        ELSE IF q % 2 = 0 THEN q ELSE q + 1

(* The float nearest n / d, n >= 0, d > 0 *)
Float(n, d) == CHOOSE v \in {g * RoundHalfEven(n, d * g) : g \in {Grid(n \div d)}} : TRUE

IsFloat(v) == Float(v, 1) = v

(* The running total `total` after values[lo..hi] were added one by one,   *)
(* rounded after every addition                                            *)
RECURSIVE fsum_from(_, _, _, _)
fsum_from(values, lo, hi, total) ==
    IF lo > hi THEN total
    ELSE IF lo = hi THEN Float(total + values[lo], 1)
    ELSE CHOOSE result \in
             {fsum_from(values, (lo + hi) \div 2 + 1, hi, half) :
                 half \in {fsum_from(values, lo, (lo + hi) \div 2, total)}} : TRUE

(* sum(values) *)
fsum(values) == fsum_from(values, 1, Len(values), 0)

(* variance ** 0.5: the float nearest the square root of v / Unit *)
fsqrt(v) ==
    LET x == v * Unit
        r == CHOOSE s \in 0..x : s * s <= x /\ (s + 1) * (s + 1) > x
        lo == (r \div Grid(r)) * Grid(r)
    IN  IF 4 * x < (2 * lo + Grid(r)) * (2 * lo + Grid(r)) THEN lo ELSE lo + Grid(r)

----------------------------------------------------------------------------
(* History (GAOptimizer._update_history).  Here a population is the list   *)
(* of its members, each [fitness, valid]: fitness.values[0] as a float and *)
(* the answer of is_valid_schedule.                                        *)

EmptyHistory ==
    [best_fitness |-> <<>>, avg_fitness |-> <<>>, worst_fitness |-> <<>>,
     diversity |-> <<>>, valid_count |-> <<>>]

HistoryArrays == DOMAIN EmptyHistory

fitnesses_of(pop) == [i \in 1..Len(pop) |-> pop[i].fitness]

fmax(values) == CHOOSE v \in {values[i] : i \in 1..Len(values)} :
                    \A i \in 1..Len(values) : values[i] <= v

fmin(values) == CHOOSE v \in {values[i] : i \in 1..Len(values)} :
                    \A i \in 1..Len(values) : values[i] >= v

(* sum(fitnesses) / len(fitnesses) *)
favg(values) == Float(fsum(values), Len(values))

(* sum((f - avg_fitness) ** 2 for f in fitness_scores) / len(fitness_scores) *)
variance_of(fitness_scores, avg_fitness) ==
    LET squares == [i \in 1..Len(fitness_scores) |->
                       LET dev == Float(Abs(fitness_scores[i] - avg_fitness), 1)
                       IN  Float(dev * dev, Unit)]
    IN  Float(fsum(squares), Len(fitness_scores))

(* FitnessEvaluator.calculate_diversity *)
calculate_diversity(pop) ==
    IF Len(pop) < 2 THEN 0
    ELSE CHOOSE diversity \in
             {Min2(100 * Unit, Float(Float(std_dev, 50) * 100, 1)) :
                 std_dev \in {fsqrt(variance) :
                     variance \in {variance_of(fitnesses_of(pop), avg_fitness) :
                         avg_fitness \in {favg(fitnesses_of(pop))}}}} : TRUE

_update_history(h, pop) ==
    LET fitnesses == fitnesses_of(pop)
    IN  [best_fitness |-> Append(h.best_fitness, fmax(fitnesses)),
         avg_fitness |-> Append(h.avg_fitness, favg(fitnesses)),
         worst_fitness |-> Append(h.worst_fitness, fmin(fitnesses)),
         valid_count |-> Append(h.valid_count,
                                Cardinality({i \in 1..Len(pop) : pop[i].valid})),
         diversity |-> Append(h.diversity, calculate_diversity(pop))]

(* Largest n_generations of a run whose history is followed *)
MaxHistory == 2

(* The members a population is drawn from: two schedules that break hard   *)
(* constraints (fitness 5.5 and 7.25) and a valid one (fitness 120)        *)
Members ==
    {[fitness |-> (11 * Unit) \div 2, valid |-> FALSE],
     [fitness |-> (29 * Unit) \div 4, valid |-> FALSE],
     [fitness |-> 120 * Unit, valid |-> TRUE]}

(* The populations of n members: all alike, or one or half of them of one  *)
(* kind and the rest of another                                            *)
MemberLists(n) ==
    {[i \in 1..n |-> IF i <= a THEN first ELSE rest] :
        first \in Members, rest \in Members, a \in {1, n \div 2}}

(* A share mix validate() accepts with which 200 members are asked for and *)
(* 201 are built                                                           *)
OvershootConfig ==
    [BaseConfig EXCEPT !.population_size = 200,
                       !.init_strategies = [random |-> 5, round_robin |-> 500,
                                            balanced |-> 500, stadium_aware |-> 0]]

(* Configurations without early stopping and local search *)
HistoryConfigs ==
    {[c EXCEPT !.n_generations = n, !.save_history = s, !.early_stopping = FALSE,
               !.early_stopping_patience = 100] :
        c \in {BaseConfig, OvershootConfig}, n \in 1..MaxHistory, s \in BOOLEAN}

InitHistory ==
    /\ IdleOps
    /\ cfg \in HistoryConfigs
    /\ pc = "constructed"
    /\ error = "none"
    /\ gen = 0
    /\ population = <<>>
    /\ best_fitness = NegInf
    /\ best_schedule = NoSchedule
    /\ generations_without_improvement = 0
    /\ last_best_fitness = NegInf
    /\ history = EmptyHistory
    /\ mutated = "unbound"
    /\ members_best = NegInf

(* optimize() up to the loop: the evaluated initial population *)
EvaluateInitialPopulation ==
    /\ pc = "constructed"
    /\ population' \in
          MemberLists(Len(initialize_population(cfg.population_size, cfg.init_strategies)))
    /\ pc' = "loop"
    /\ UNCHANGED <<cfg, error, gen, best_fitness, best_schedule, history, mutated,
                   generations_without_improvement, last_best_fitness, members_best>>
    /\ UNCHANGED varsOps

(* A generation that runs to its end: select(population, len(population))  *)
(* and the replacement keep the number of members, the members are any;    *)
(* then the history and the best-ever record are updated                   *)
CompleteGeneration ==
    /\ pc = "loop"
    /\ \E offspring \in MemberLists(Len(population)) :
         \E current_best_fitness \in {fmax(fitnesses_of(offspring))} :
           /\ population' = offspring
           /\ history' = IF cfg.save_history THEN _update_history(history, offspring)
                         ELSE history
           /\ best_fitness' = Max2(best_fitness, current_best_fitness)
           /\ best_schedule' = Stored(Max2(best_fitness, current_best_fitness))
    /\ gen' = gen + 1
    /\ mutated' = "bound"
    /\ pc' = IF gen + 1 = cfg.n_generations THEN "done" ELSE "loop"
    /\ UNCHANGED <<cfg, error, generations_without_improvement, last_best_fitness,
                   members_best>>
    /\ UNCHANGED varsOps

NextHistory ==
    \/ EvaluateInitialPopulation
    \/ CompleteGeneration

SpecHistory == InitHistory /\ [][NextHistory]_vars

(* C17: with save_history on, after k generations each of the five history *)
(* arrays has length k; every valid_count entry is in [0, population_size],*)
(* every diversity entry in [0, 100], and worst <= avg <= best entry by    *)
(* entry.                                                                  *)
C17_HistoryArrays ==
    (cfg.save_history /\ pc \in {"loop", "done"}) =>
        /\ \A a \in HistoryArrays : Len(history[a]) = gen
        /\ \A g \in 1..Len(history.valid_count) :
              /\ 0 <= history.valid_count[g]
              /\ history.valid_count[g] <= cfg.population_size
              /\ 0 <= history.diversity[g]
              /\ history.diversity[g] <= 100 * Unit
              /\ history.worst_fitness[g] <= history.avg_fitness[g]
              /\ history.avg_fitness[g] <= history.best_fitness[g]

----------------------------------------------------------------------------
(* The mutation block of a generation (optimize, lines 146-152).  inputs   *)
(* is the list offspring when the block starts, outputs the list when it   *)
(* ends; `mutated` is Unbound or the schedule the local refers to; ls      *)
(* holds the loop variable i and, per index already visited, whether the   *)
(* offspring was chosen and what toolbox.mutate returned for it.           *)

(* Most offspring in the list *)
MaxOffspring == 3

(* The offspring lists: up to MaxOffspring schedules of at most one match, *)
(* laid out one after the other in the heap                                *)
OffspringHeaps ==
    UNION {[1..k -> MatchLists(1, HomeStadium)] : k \in 1..MaxOffspring}

(* The addresses of the k-th list when the lists lie one after the other *)
AddressesOf(lists, k) == Block(Len(Concat(SubSeq(lists, 1, k - 1))), Len(lists[k]))

(* The local `mutated` before its first assignment, and as a reference to *)
(* a Schedule with the Match objects at the addresses `matches`            *)
Unbound == [kind |-> "unbound"]

Bound(matches) == [kind |-> "Schedule", matches |-> matches]

(* What `mutated` refers to when the block starts: nothing in the first    *)
(* generation, later the schedule an earlier generation left there         *)
StaleMatch == [id |-> 1, home_team_id |-> 1, away_team_id |-> 2,
               stadium_id |-> home_stadium_id(1), round_number |-> 1]

InitBlock ==
    /\ cfg \in {[BaseConfig EXCEPT !.mutation_prob = p] : p \in {0, 50, 100}}
    /\ pc = "loop"
    /\ error = "none"
    /\ gen = 0
    /\ population = EmptyPop
    /\ best_fitness = NegInf
    /\ best_schedule = NoSchedule
    /\ generations_without_improvement = 0
    /\ last_best_fitness = NegInf
    /\ history = [best_fitness |-> <<>>]
    /\ members_best = NegInf
    /\ rng = 0
    /\ optimizers = <<>>
    /\ teams = 1..2
    /\ \E lists \in OffspringHeaps :
         /\ inputs = [k \in 1..Len(lists) |-> AddressesOf(lists, k)]
         /\ given = lists
         /\ \/ /\ mutated = Unbound
               /\ heap = Concat(lists)
            \/ /\ mutated = Bound(<<Len(Concat(lists)) + 1>>)
               /\ heap = Append(Concat(lists), StaleMatch)
    /\ outputs = <<>>
    /\ op = "none"
    /\ ls = [pc |-> "mutation", i |-> 1, visited |-> <<>>]

(* Lines 147-149 for one i, the test `random.random() < mutation_prob`     *)
(* passing: mutated = self.toolbox.mutate(offspring[i])                    *)
MutationChosen ==
    /\ pc = "loop"
    /\ ls.pc = "mutation"
    /\ ls.i <= Len(inputs)
    /\ TRUE \in Below(cfg.mutation_prob)
    /\ \E res \in apply_mutation(heap, inputs[ls.i], cfg.mutation_prob) :
         /\ heap' = res.heap
         /\ mutated' = Bound(res.schedule)
         /\ ls' = [ls EXCEPT !.i = @ + 1,
                             !.visited = Append(@, [chosen |-> TRUE,
                                                    mutated |-> res.schedule])]
    /\ UNCHANGED <<cfg, pc, error, gen, population, best_fitness, best_schedule,
                   generations_without_improvement, last_best_fitness, history,
                   members_best>>
    /\ UNCHANGED <<teams, inputs, outputs, op, given, varsRng>>

(* Lines 147-148 for one i, the test failing *)
MutationSkipped ==
    /\ pc = "loop"
    /\ ls.pc = "mutation"
    /\ ls.i <= Len(inputs)
    /\ FALSE \in Below(cfg.mutation_prob)
    /\ ls' = [ls EXCEPT !.i = @ + 1,
                        !.visited = Append(@, [chosen |-> FALSE, mutated |-> <<>>])]
    /\ UNCHANGED <<teams, heap, inputs, outputs, op, given, varsRng>>
    /\ UNCHANGED varsGA

(* Line 152, after the loop, with i still the last index:                  *)
(* offspring[i] = self._schedule_to_individual(mutated)                    *)
ConvertMutated ==
    /\ pc = "loop"
    /\ ls.pc = "mutation"
    /\ ls.i = Len(inputs) + 1
    /\ mutated # Unbound
    /\ outputs' = [inputs EXCEPT ![Len(inputs)] = mutated.matches]
    /\ op' = "mutation"
    /\ ls' = [ls EXCEPT !.pc = "repair"]
    /\ UNCHANGED <<teams, heap, inputs, given, varsRng>>
    /\ UNCHANGED varsGA

(* Line 152 when no offspring was ever chosen: UnboundLocalError *)
ConvertUnbound ==
    /\ pc = "loop"
    /\ ls.pc = "mutation"
    /\ ls.i = Len(inputs) + 1
    /\ mutated = Unbound
    /\ pc' = "error"
    /\ error' = "UnboundLocalError"
    /\ UNCHANGED <<cfg, gen, population, best_fitness, best_schedule, mutated,
                   generations_without_improvement, last_best_fitness, history,
                   members_best>>
    /\ UNCHANGED varsOps

NextBlock ==
    \/ MutationChosen
    \/ MutationSkipped
    \/ ConvertMutated
    \/ ConvertUnbound

SpecBlock == InitBlock /\ [][NextBlock]_vars

(* C18: after the mutation step, every offspring chosen for mutation is    *)
(* replaced at its own index by the result of mutating that offspring, and *)
(* every offspring not chosen is exactly as it was before the step.        *)
C18_MutationInPlace ==
    op = "mutation" =>
        \A i \in 1..Len(inputs) :
            IF ls.visited[i].chosen
            THEN outputs[i] = ls.visited[i].mutated
            ELSE /\ outputs[i] = inputs[i]
                 /\ Deref(heap, outputs[i]) = given[i]

----------------------------------------------------------------------------
(* Elitism and replacement (optimize, lines 166-172) on the evaluated      *)
(* offspring in list order: inputs[1] is the list offspring, each member   *)
(* by its fitness (the lowest or the highest level); outputs[1] is the     *)
(* list that replaces the population.                                      *)

(* The multiset of the members of a list *)
BagOf(list) == AddAll(EmptyPop, list)

(* elites + offspring[:-n_elites] when n_elites > 0, else offspring *)
elites_and_offspring(pop, offspring, n_elites) ==
    IF n_elites > 0
    THEN selBest(pop, n_elites) \o SubSeq(offspring, 1, Len(offspring) - n_elites)
    ELSE offspring

InitElitism ==
    /\ cfg \in {[BaseConfig EXCEPT !.n_elites = n] : n \in 0..2}
    /\ pc = "loop"
    /\ error = "none"
    /\ gen = 0
    /\ population \in Populations(cfg.population_size)
    /\ best_fitness = NegInf
    /\ best_schedule = NoSchedule
    /\ generations_without_improvement = 0
    /\ last_best_fitness = NegInf
    /\ history = [best_fitness |-> <<>>]
    /\ mutated = "bound"
    /\ members_best = MaxOf(population)
    /\ rng = 0
    /\ optimizers = <<>>
    /\ teams = 1..2
    /\ ls = NoSearch
    /\ heap = <<>>
    /\ inputs \in {<<offspring>> : offspring \in [1..cfg.population_size -> {0, MaxFitness}]}
    /\ outputs = <<>>
    /\ op = "none"
    /\ given = <<>>

(* Lines 166-172: elites = selBest(population, n_elites);                  *)
(* offspring = elites + offspring[:-n_elites]; population[:] = offspring   *)
ReplacePopulation ==
    /\ pc = "loop"
    /\ op = "none"
    /\ \E offspring \in {elites_and_offspring(population, inputs[1], cfg.n_elites)} :
         /\ outputs' = <<offspring>>
         /\ population' = BagOf(offspring)
         /\ members_best' = Max2(members_best, MaxOf(BagOf(offspring)))
    /\ op' = "replacement"
    /\ UNCHANGED <<cfg, pc, error, gen, best_fitness, best_schedule, history, mutated,
                   generations_without_improvement, last_best_fitness>>
    /\ UNCHANGED <<teams, heap, inputs, given, ls, varsRng>>

NextElitism == ReplacePopulation

SpecElitism == InitElitism /\ [][NextElitism]_vars

(* The offspring without its n lowest-fitness members *)
WithoutWorst(offspring, n) == RemoveAll(BagOf(offspring), Worst(BagOf(offspring), n))

(* C19: with n_elites = n >= 1 the population after a generation is the n  *)
(* fittest members of the previous population together with the evaluated *)
(* offspring minus its n least fit members.                                *)
C19_ElitesReplaceWorst ==
    [][(cfg.n_elites >= 1 /\ op' = "replacement") =>
          population' = AddAll(WithoutWorst(inputs[1], cfg.n_elites),
                               selBest(population, cfg.n_elites))]_vars

----------------------------------------------------------------------------
(* One pass of _fix_one_match_per_round, move by move *)

(* The pass of fix_one_rounds with the list of its moves: per move the     *)
(* round the match left, the round it went to, and the rounds in which     *)
(* neither of its teams played when it moved                               *)
RECURSIVE fix_one_moves(_, _, _, _)
fix_one_moves(h, s, round_num, moves) ==
    IF round_num > total_rounds THEN {[heap |-> h, moves |-> moves]}
    ELSE LET round_matches == round_matches_of(h, s, round_num)
             violating_teams == {t \in teams : Appearances(Deref(h, round_matches),
                                                           1..Len(round_matches), t) > 1}
             to_move == SelectSeq(round_matches,
                                  LAMBDA a : \/ h[a].home_team_id \in violating_teams
                                             \/ h[a].away_team_id \in violating_teams)
         IN  IF violating_teams = {} THEN fix_one_moves(h, s, round_num + 1, moves)
             ELSE UNION {fix_one_moves([h EXCEPT ![to_move[1]].round_number = new_round],
                                       s, round_num + 1,
                                       Append(moves, [from |-> round_num, to |-> new_round,
                                                      free |-> free_rounds(h, s, to_move[1])])) :
                            new_round \in _find_available_round(h, s, to_move[1])}

(* The passes over the schedule with the Match objects ms *)
passes_over(ms) == fix_one_moves(ms, Block(0, Len(ms)), 1, <<>>)

(* By how much team t plays more than once in round r *)
Surplus(ms, t, r) == Max2(0, Appearances(ms, InRound(ms, r), t) - 1)

(* The number of (team, round) duplicates *)
Duplicates(ms) ==
    Sum([p \in teams \X (Rounds \cup rounds_of(ms)) |-> Surplus(ms, p[1], p[2])],
        teams \X (Rounds \cup rounds_of(ms)))

(* C21: quick_repair (one pass of _fix_one_match_per_round) changes only   *)
(* round numbers; every match it moves goes to a round in which neither of *)
(* its teams played at that moment whenever [1,R] has such a round; and a  *)
(* pass all of whose moves found such a round leaves fewer (team, round)   *)
(* duplicates than before and adds none to any team in any round.          *)
C21_PassMovesToFreeRound ==
    op = "quick_repair" =>
        \E before \in {given[1]} : \E after \in {Deref(heap, outputs[1])} :
          \E passes \in {{pass \in passes_over(before) : pass.heap = after}} :
            /\ Len(after) = Len(before)
            /\ \A i \in Indices(before) :
                  [after[i] EXCEPT !.round_number = before[i].round_number] = before[i]
            /\ passes # {}
            /\ \A pass \in passes :
                  /\ \A k \in 1..Len(pass.moves) :
                        pass.moves[k].free # {} => pass.moves[k].to \in pass.moves[k].free
                  /\ (/\ pass.moves # <<>>
                      /\ \A k \in 1..Len(pass.moves) : pass.moves[k].free # {})
                        => /\ Duplicates(after) < Duplicates(before)
                           /\ \A t \in teams : \A r \in Rounds :
                                 Surplus(after, t, r) <= Surplus(before, t, r)

(* quick_repair returned after a pass with two moves, each to a round in   *)
(* which neither team played                                               *)
C21_Witness ==
    /\ op = "quick_repair"
    /\ \E pass \in passes_over(given[1]) :
          /\ pass.heap = Deref(heap, outputs[1])
          /\ Len(pass.moves) >= 2
          /\ \A k \in 1..Len(pass.moves) : pass.moves[k].free # {}

----------------------------------------------------------------------------
(* C22: when step 3 of repair_schedule begins on a schedule whose          *)
(* no_consecutive count is at least 1, the schedule repair_schedule        *)
(* returns has a strictly smaller no_consecutive count.                    *)
C22_Phase3Reduces ==
    (/\ op = "repair_schedule"
     /\ ls.pc = "returned"
     /\ check_no_consecutive_same_opponent(ls.phase3_start) >= 1)
        => check_no_consecutive_same_opponent(Deref(heap, outputs[1]))
              < check_no_consecutive_same_opponent(ls.phase3_start)

----------------------------------------------------------------------------
(* Longest schedule of two teams whose call is followed to its end *)
MaxFollowed == 2

(* The calls that are followed to their end: the schedules of two teams of *)
(* at most MaxFollowed matches, and the feasible schedule of four teams    *)
InitRepairLive ==
    /\ InitRepair
    /\ IF n_teams = 2 THEN Len(heap) <= MaxFollowed ELSE heap = DoubleRoundRobin

(* repair_schedule runs on: a call that has begun takes its next step *)
SpecRepairLive == InitRepairLive /\ [][NextRepair]_vars /\ WF_vars(NextRepair)

RepairPhases == {"phase2", "phase3", "phase4"}

(* The check of the loop repair_schedule is in *)
phase_check ==
    CASE ls.pc = "phase2" -> _check_one_match_per_team_per_round(heap, ls.repaired)
      [] ls.pc = "phase3" -> _check_no_consecutive_opponents(heap, ls.repaired)
      [] ls.pc = "phase4" -> _check_stadium_conflicts(heap, ls.repaired, ls.shared_stadiums)

(* A fix pass: a step that stays in its loop *)
FixPass == ls.pc \in RepairPhases /\ ls'.pc = ls.pc

(* Every check of repair_schedule passes on the matches ms and no directed *)
(* matchup is missing                                                      *)
all_checks_pass(ms, shared) ==
    /\ \A p \in DirectedMatchups : \E i \in Indices(ms) : key(ms[i]) = p
    /\ _check_one_match_per_team_per_round(ms, Block(0, Len(ms)))
    /\ _check_no_consecutive_opponents(ms, Block(0, Len(ms)))
    /\ _check_stadium_conflicts(ms, Block(0, Len(ms)), shared)

(* C23: in repair_schedule a fix pass of step 2, 3 or 4 runs only when the *)
(* step's own check fails and fewer than max_iterations passes of the step *)
(* have run; every call of repair_schedule returns; and a schedule on      *)
(* which every check passes is returned with the same matches in the same  *)
(* rounds.                                                                 *)
C23_RepairTerminates ==
    /\ [][FixPass => (~phase_check /\ ls.passes < ls.max_iterations)]_vars
    /\ [](ls.pc \in RepairPhases => ls.passes <= ls.max_iterations)
    /\ (op = "repair_schedule") ~> (ls.pc = "returned")
    /\ []((ls.pc = "returned" /\ all_checks_pass(given[1], ls.shared_stadiums))
             => Deref(heap, outputs[1]) = given[1])

(* repair_schedule returned a feasible schedule of four teams *)
C23_Witness ==
    /\ op = "repair_schedule"
    /\ ls.pc = "returned"
    /\ n_teams = 4
    /\ get_total_violations(given[1]) = 0
    /\ all_checks_pass(given[1], ls.shared_stadiums)

----------------------------------------------------------------------------
(* The constraint checker (ConstraintChecker): one call of check_schedule  *)
(* or is_schedule_valid on a schedule.  ls.derby_pairs is the checker's    *)
(* derby_pairs: none, or the pairs of derby_pairs.                         *)

(* evaluate_all_soft_constraints(schedule, pairs) *)
soft_results(ms, pairs) ==
    LET results == [home_away_balance |-> evaluate_home_away_balance(ms),
                    travel_distance |-> evaluate_travel_distance(ms),
                    competitive_balance |-> evaluate_competitive_balance(ms),
                    rest_days_fairness |-> evaluate_rest_days_fairness(ms)]
    IN  IF pairs # {}
        THEN results @@ [derby_distribution |-> evaluate_derby_distribution(ms)]
        ELSE results

(* check_all_hard_constraints()[0]: every count is zero *)
hard_valid(ms) ==
    \A k \in DOMAIN check_all_hard_constraints(ms) : check_all_hard_constraints(ms)[k] = 0

(* check_schedule: the hard verdict and counts, the soft scores and the    *)
(* two parts of the weighted score                                         *)
check_schedule(ms, pairs) ==
    [is_valid |-> hard_valid(ms),
     details |-> check_all_hard_constraints(ms),
     soft_details |-> soft_results(ms, pairs),
     weighted_score |-> get_weighted_score(soft_results(ms, pairs))]

(* The schedules that are checked.  Two teams: every list of at most       *)
(* MaxMatches matches, in any stadium.  Four teams: the feasible schedule  *)
(* and its variants of RepairInputs.  Both: what the round-robin seeder    *)
(* builds.                                                                 *)
CheckedSchedules ==
    {create_round_robin_schedule}
      \cup (IF n_teams = 2 THEN MatchLists(MaxMatches, AnyStadium)
            ELSE {DoubleRoundRobin} \cup RepairInputs(DoubleRoundRobin))

InitCheck ==
    /\ IdleGA
    /\ rng = 0
    /\ optimizers = <<>>
    /\ teams \in Lineups
    /\ heap \in CheckedSchedules
    /\ inputs = <<Block(0, Len(heap))>>
    /\ outputs = <<>>
    /\ op = "none"
    /\ given = <<heap>>
    /\ ls \in {[pc |-> "idle", derby_pairs |-> pairs] : pairs \in {{}, derby_pairs}}

CheckSchedule ==
    /\ op = "none"
    /\ op' = "check_schedule"
    /\ outputs' = <<check_schedule(Deref(heap, inputs[1]), ls.derby_pairs)>>
    /\ UNCHANGED <<teams, heap, inputs, given, ls, varsRng>>
    /\ UNCHANGED varsGA

IsScheduleValid ==
    /\ op = "none"
    /\ op' = "is_schedule_valid"
    /\ outputs' = <<hard_valid(Deref(heap, inputs[1]))>>
    /\ UNCHANGED <<teams, heap, inputs, given, ls, varsRng>>
    /\ UNCHANGED varsGA

NextCheck ==
    \/ CheckSchedule
    \/ IsScheduleValid

SpecCheck == InitCheck /\ [][NextCheck]_vars

(* C24: the one_match_per_round count is the sum of |appearances(t, r) - 1| *)
(* over every team t and every round r of 1..R, the rounds without a match  *)
(* included, and it is zero exactly when every team plays exactly once in   *)
(* each of the R rounds.                                                    *)
C24_OneMatchPerRoundCount ==
    op = "check_schedule" =>
        /\ outputs[1].details.one_match_per_round
              = Sum([p \in teams \X Rounds |->
                        Abs(Appearances(given[1], InRound(given[1], p[2]), p[1]) - 1)],
                    teams \X Rounds)
        /\ outputs[1].details.one_match_per_round = 0
              <=> \A t \in teams : \A r \in Rounds :
                     Appearances(given[1], InRound(given[1], r), t) = 1

----------------------------------------------------------------------------
(* C25: when the checker has no derby pairs, the weighted soft score is    *)
(* the weighted mean over all five terms with derby_distribution at 100:   *)
(* (sum of w_k * s_k over the four other terms + w_derby * 100) / (sum of  *)
(* the five weights).                                                      *)
C25_EmptyDerbyScores100 ==
    (op = "check_schedule" /\ ls.derby_pairs = {}) =>
        \E others \in {DOMAIN soft_weights \ {"derby_distribution"}} :
            outputs[1].weighted_score.total_score * Sum(soft_weights, DOMAIN soft_weights)
              = (Sum([k \in others |-> soft_weights[k] * outputs[1].soft_details[k]], others)
                   + soft_weights.derby_distribution * 100)
                  * outputs[1].weighted_score.total_weight

----------------------------------------------------------------------------
(* C26: the schedule step 1 of repair_schedule (_ensure_all_matchups)      *)
(* leaves holds every directed matchup at least once, begins with the      *)
(* matches of the input unchanged, gives every added match the home team's *)
(* stadium and a round of 1..R, and has pairwise distinct match ids.       *)
C26_Phase1Completes ==
    (op = "repair_schedule" /\ ls.pc = "phase2" /\ ls.passes = 0) =>
        \E repaired \in {Deref(heap, ls.repaired)} :
            /\ \A p \in DirectedMatchups : \E i \in Indices(repaired) : key(repaired[i]) = p
            /\ Len(repaired) >= Len(given[1])
            /\ SubSeq(repaired, 1, Len(given[1])) = given[1]
            /\ \A i \in (Len(given[1]) + 1)..Len(repaired) :
                  /\ repaired[i].stadium_id = home_stadium_id(repaired[i].home_team_id)
                  /\ repaired[i].round_number \in Rounds
            /\ \A i, j \in Indices(repaired) : repaired[i].id = repaired[j].id => i = j

----------------------------------------------------------------------------
(* C27: a schedule is_schedule_valid reports valid has exactly N(N-1)      *)
(* matches, one per ordered pair of teams, every round number in 1..R,     *)
(* N/2 matches in each of the rounds 1..R with every team playing exactly  *)
(* once, and every match in the home team's stadium.                       *)
C27_ValidIsComplete ==
    (op = "is_schedule_valid" /\ outputs[1]) =>
        \E ms \in {given[1]} :
            /\ Len(ms) = n_teams * (n_teams - 1)
            /\ \A p \in DirectedMatchups :
                  Cardinality({i \in Indices(ms) : key(ms[i]) = p}) = 1
            /\ \A i \in Indices(ms) :
                  /\ ms[i].round_number \in Rounds
                  /\ ms[i].stadium_id = home_stadium_id(ms[i].home_team_id)
            /\ \A r \in Rounds :
                  /\ 2 * Cardinality(InRound(ms, r)) = n_teams
                  /\ \A t \in teams : Appearances(ms, InRound(ms, r), t) = 1

----------------------------------------------------------------------------
(* One pair of offspring through a generation (optimize, lines 137-164):   *)
(* inputs are the two cloned parents, outputs the list offspring after     *)
(* each step; op names the step that ran last.  ls holds, once the         *)
(* mutation block ran, the slots whose individual descends from this       *)
(* generation's crossover (`crossed`), the slots that hold a plain         *)
(* Schedule (`plain`), the lengths before the repair step                  *)
(* (`unrepaired`) and the hard counts of the evaluation (`details`).       *)

(* The parents: with two teams any two lists, with four the clones of a   *)
(* feasible member                                                         *)
ParentPairs ==
    IF n_teams = 2
    THEN MatchLists(MaxParentLen, HomeStadium) \X MatchLists(MaxParentLen, HomeStadium)
    ELSE {<<DoubleRoundRobin, DoubleRoundRobin>>}

(* The mutation probabilities: with four teams only 0, the block then     *)
(* leaving the schedule of an earlier generation in the last slot          *)
MutationProbs == IF n_teams = 2 THEN {0, 50} ELSE {0}

InitOffspring ==
    /\ teams \in Lineups
    /\ cfg \in {[BaseConfig EXCEPT !.mutation_prob = p, !.use_repair = u] :
                   p \in MutationProbs, u \in BOOLEAN}
    /\ pc = "loop"
    /\ error = "none"
    /\ gen = 0
    /\ population = EmptyPop
    /\ best_fitness = NegInf
    /\ best_schedule = NoSchedule
    /\ generations_without_improvement = 0
    /\ last_best_fitness = NegInf
    /\ history = [best_fitness |-> <<>>]
    /\ members_best = NegInf
    /\ rng = 0
    /\ optimizers = <<>>
    /\ \E parents \in ParentPairs :
         /\ inputs = <<Block(0, Len(parents[1])), Block(Len(parents[1]), Len(parents[2]))>>
         /\ given = parents
         /\ \/ /\ mutated = Unbound
               /\ heap = parents[1] \o parents[2]
            \/ /\ mutated = Bound(<<Len(parents[1] \o parents[2]) + 1>>)
               /\ heap = Append(parents[1] \o parents[2], StaleMatch)
    /\ outputs = <<>>
    /\ op = "none"
    /\ ls = NoSearch

(* Lines 146-149: the heap and the local `mutated` after the loop over     *)
(* offspring[i..]                                                          *)
RECURSIVE mutation_loop(_, _, _, _, _)
mutation_loop(h, offspring, i, mut, mutation_prob) ==
    IF i > Len(offspring) THEN {[heap |-> h, mutated |-> mut]}
    ELSE (IF FALSE \in Below(mutation_prob)
          THEN mutation_loop(h, offspring, i + 1, mut, mutation_prob) ELSE {})
         \cup
         (IF TRUE \in Below(mutation_prob)
          THEN UNION {mutation_loop(res.heap, offspring, i + 1, Bound(res.schedule),
                                    mutation_prob) :
                        res \in apply_mutation(h, offspring[i], mutation_prob)}
          ELSE {})

(* Lines 146-152: the mutation loop, then offspring[i] = mutated for the   *)
(* last i; UnboundLocalError when `mutated` was never assigned             *)
MutationBlock ==
    /\ pc = "loop"
    /\ op \in {"crossover_round_swap", "crossover_single_point", "uncrossed"}
    /\ \E res \in mutation_loop(heap, outputs, 1, mutated, cfg.mutation_prob) :
         IF res.mutated = Unbound
         THEN /\ pc' = "error"
              /\ error' = "UnboundLocalError"
              /\ UNCHANGED <<heap, outputs, mutated, ls>>
         ELSE /\ heap' = res.heap
              /\ mutated' = res.mutated
              /\ outputs' = [outputs EXCEPT ![Len(outputs)] = res.mutated.matches]
              /\ ls' = [pc |-> "offspring",
                        crossed |-> IF op = "uncrossed" THEN {}
                                    ELSE IF res.mutated = mutated THEN {1} ELSE {1, 2},
                        plain |-> IF op = "uncrossed" THEN 1..(Len(outputs) - 1) ELSE {},
                        unrepaired |-> <<>>,
                        details |-> <<>>]
              /\ UNCHANGED <<pc, error>>
    /\ op' = "mutation"
    /\ UNCHANGED <<cfg, gen, population, best_fitness, best_schedule,
                   generations_without_improvement, last_best_fitness, history,
                   members_best>>
    /\ UNCHANGED <<teams, inputs, given, varsRng>>

(* Lines 156-159 for offspring[i..]: each replaced by quick_repair of it *)
RECURSIVE repair_loop(_, _, _)
repair_loop(h, offspring, i) ==
    IF i > Len(offspring) THEN {[heap |-> h, offspring |-> offspring]}
    ELSE UNION {repair_loop(res.heap, [offspring EXCEPT ![i] = res.schedule], i + 1) :
                  res \in quick_repair(h, offspring[i])}

(* Lines 155-159: the repair step, when use_repair is set *)
RepairOffspring ==
    /\ pc = "loop"
    /\ op = "mutation"
    /\ cfg.use_repair
    /\ \E res \in repair_loop(heap, outputs, 1) :
         /\ heap' = res.heap
         /\ outputs' = res.offspring
    /\ ls' = [ls EXCEPT !.unrepaired = [i \in 1..Len(outputs) |-> Len(outputs[i])],
                        !.plain = {}]
    /\ op' = "quick_repair"
    /\ UNCHANGED <<teams, inputs, given, varsRng>>
    /\ UNCHANGED varsGA

(* Lines 162-164: every offspring is evaluated and, being an Individual,   *)
(* takes its fitness                                                       *)
EvaluateOffspring ==
    /\ pc = "loop"
    /\ \/ op = "quick_repair"
       \/ op = "mutation" /\ ~cfg.use_repair
    /\ ls.plain = {}
    /\ ls' = [ls EXCEPT !.pc = "evaluated",
                        !.details = [i \in 1..Len(outputs) |->
                                       check_all_hard_constraints(Deref(heap, outputs[i]))]]
    /\ op' = "evaluate"
    /\ UNCHANGED <<teams, heap, inputs, outputs, given, varsRng>>
    /\ UNCHANGED varsGA

NextOffspring ==
    \/ CrossoverRoundSwap
    \/ CrossoverSinglePoint
    \/ MutationBlock
    \/ RepairOffspring
    \/ EvaluateOffspring

SpecOffspring == InitOffspring /\ [][NextOffspring]_vars

(* C28: each offspring of round-swap and of single-point crossover holds   *)
(* at most one match per unordered pair of teams, hence at most N(N-1)/2   *)
(* matches, whatever the parents; the repair step of the generation loop   *)
(* adds no match; every individual that came out of the crossover has      *)
(* all_matchups > 0 and total_matches > 0 when it is evaluated.            *)
C28_CrossedOffspringInfeasible ==
    /\ op \in {"crossover_round_swap", "crossover_single_point"} =>
          \A k \in 1..2 :
              /\ \A i, j \in 1..Len(outputs[k]) :
                    matchup(heap[outputs[k][i]]) = matchup(heap[outputs[k][j]]) => i = j
              /\ 2 * Len(outputs[k]) <= n_teams * (n_teams - 1)
    /\ op = "quick_repair" =>
          \A k \in 1..Len(outputs) : Len(outputs[k]) = ls.unrepaired[k]
    /\ op = "evaluate" =>
          \A k \in ls.crossed :
              /\ ls.details[k].all_matchups > 0
              /\ ls.details[k].total_matches > 0

(* C28 witness: both parents are the feasible schedule of four teams, an   *)
(* offspring of the crossover with N(N-1)/2 matches went through the       *)
(* mutation block and the repair step and was evaluated.                   *)
C28_Witness ==
    /\ op = "evaluate"
    /\ n_teams = 4
    /\ cfg.use_repair
    /\ get_total_violations(given[1]) = 0
    /\ 1 \in ls.crossed
    /\ 2 * Len(outputs[1]) = n_teams * (n_teams - 1)

----------------------------------------------------------------------------
(* C29: no seeder output (random, round-robin, balanced, stadium-aware)    *)
(* holds the same directed matchup (home, away) more than once; in none    *)
(* does a team appear in two matches of the same round, and no round       *)
(* holds more than N/2 matches.                                            *)
C29_SeedersPlaceOnce ==
    op \in {"create_random_schedule", "create_round_robin_schedule",
            "create_balanced_schedule", "create_stadium_aware_schedule"} =>
        \E ms \in {Deref(heap, outputs[1])} :
            /\ \A i, j \in Indices(ms) : key(ms[i]) = key(ms[j]) => i = j
            /\ \A r \in rounds_of(ms) :
                  /\ \A t \in teams : Appearances(ms, InRound(ms, r), t) <= 1
                  /\ 2 * Cardinality(InRound(ms, r)) <= n_teams

----------------------------------------------------------------------------
(* Generations on Match objects (optimize, lines 128-184): the population  *)
(* is the list of its members, each with the addresses of its matches and  *)
(* the fitness the evaluation gave it; best_schedule is None or the        *)
(* schedule stored at line 184; history holds the best_fitness array.      *)
(* Each generation selects one pair, which goes through the steps of       *)
(* SpecOffspring, and ends with the replacement and the records.           *)

(* Most generations followed on Match objects *)
MaxBoundaries == 2

(* The schedules of the initial members: the beginnings of the double      *)
(* round-robin of two teams                                                *)
RatedSchedules == {SubSeq(DoubleRoundRobin, 1, k) : k \in 0..Len(DoubleRoundRobin)}

InitBest ==
    /\ teams = 1..2
    /\ cfg \in {[BaseConfig EXCEPT !.n_generations = MaxBoundaries,
                                   !.mutation_prob = p, !.n_elites = n,
                                   !.use_repair = u, !.save_history = s] :
                   p \in {50}, n \in 0..1, u \in BOOLEAN, s \in BOOLEAN}
    /\ pc = "loop"
    /\ error = "none"
    /\ gen = 0
    /\ \E first \in RatedSchedules, second \in RatedSchedules :
         /\ heap = first \o second
         /\ population = <<[matches |-> Block(0, Len(first)),
                            fitness |-> evaluate(first)],
                           [matches |-> Block(Len(first), Len(second)),
                            fitness |-> evaluate(second)]>>
    /\ best_fitness = NegInf
    /\ best_schedule = NoSchedule
    /\ generations_without_improvement = 0
    /\ last_best_fitness = NegInf
    /\ history = [best_fitness |-> <<>>]
    /\ mutated = Unbound
    /\ members_best = NegInf
    /\ rng = 0
    /\ optimizers = <<>>
    /\ ls = NoSearch
    /\ inputs = <<>>
    /\ outputs = <<>>
    /\ op = "population"
    /\ given = <<>>

(* Lines 129-134: two members are selected (a tournament may return any    *)
(* member, and the same one twice) and cloned                              *)
SelectAndClone ==
    /\ pc = "loop"
    /\ op \in {"population", "generation"}
    /\ \E i \in 1..Len(population), j \in 1..Len(population) :
         \E c1 \in {clone(heap, population[i].matches)} :
           \E c2 \in {clone(c1.heap, population[j].matches)} :
             /\ heap' = c2.heap
             /\ inputs' = <<c1.schedule, c2.schedule>>
             /\ given' = <<Deref(heap, population[i].matches),
                           Deref(heap, population[j].matches)>>
    /\ outputs' = <<>>
    /\ op' = "none"
    /\ ls' = NoSearch
    /\ UNCHANGED <<teams, varsRng>>
    /\ UNCHANGED varsGA

(* Line 138, the test `random.random() < crossover_prob` failing: the two  *)
(* clones stay in the list as they are, plain Schedule objects             *)
CrossoverSkipped ==
    /\ pc = "loop"
    /\ op = "none"
    /\ FALSE \in Below(cfg.crossover_prob)
    /\ outputs' = inputs
    /\ op' = "uncrossed"
    /\ UNCHANGED <<teams, heap, inputs, given, ls, varsRng>>
    /\ UNCHANGED varsGA

(* Line 164 on an offspring that is a plain Schedule (an uncrossed clone   *)
(* that no later step converted): it has no attribute fitness              *)
EvaluatePlain ==
    /\ pc = "loop"
    /\ op = "mutation"
    /\ ~cfg.use_repair
    /\ ls.plain # {}
    /\ pc' = "error"
    /\ error' = "AttributeError"
    /\ UNCHANGED <<cfg, gen, population, best_fitness, best_schedule, mutated,
                   generations_without_improvement, last_best_fitness, history,
                   members_best>>
    /\ UNCHANGED varsOps

(* tools.selBest(population, 1)[0]: the first member of highest fitness *)
best_member(pop) ==
    pop[CHOOSE i \in 1..Len(pop) :
          /\ \A j \in 1..Len(pop) : pop[j].fitness <= pop[i].fitness
          /\ \A j \in 1..(i - 1) : pop[j].fitness < pop[i].fitness]

(* Lines 167-169 for n_elites <= 1 *)
elites_then_offspring(pop, offspring, n_elites) ==
    IF n_elites > 0
    THEN <<best_member(pop)>> \o SubSeq(offspring, 1, Len(offspring) - n_elites)
    ELSE offspring

(* Variant of update_best that stores current_best itself, not a clone *)
update_best_shared(h, pop, bf, bs) ==
    IF bs = NoSchedule \/ best_member(pop).fitness > bf
    THEN [heap |-> h, best_fitness |-> best_member(pop).fitness,
          best_schedule |-> Bound(best_member(pop).matches)]
    ELSE [heap |-> h, best_fitness |-> bf, best_schedule |-> bs]

(* Lines 179-184: best_fitness starts at -inf, below every fitness, so the *)
(* test passes whenever nothing is stored yet                              *)
update_best(h, pop, bf, bs) ==
    IF bs = NoSchedule \/ best_member(pop).fitness > bf
    THEN [heap |-> clone(h, best_member(pop).matches).heap,
          best_fitness |-> best_member(pop).fitness,
          best_schedule |-> Bound(clone(h, best_member(pop).matches).schedule)]
    ELSE [heap |-> h, best_fitness |-> bf, best_schedule |-> bs]

(* The addresses of `live` numbered in order, the objects elsewhere freed *)
Rank(live, a) == Cardinality({b \in live : b <= a})

Surviving(h, live) == [k \in 1..Cardinality(live) |-> h[CHOOSE a \in live : Rank(live, a) = k]]

Moved(live, s) == [i \in 1..Len(s) |-> Rank(live, s[i])]

MovedRef(live, ref) ==
    IF ref.kind = "Schedule" THEN [ref EXCEPT !.matches = Moved(live, @)] ELSE ref

Referred(ref) == IF ref.kind = "Schedule" THEN Addresses(ref.matches) ELSE {}

(* Lines 162-184: the offspring get their fitness, the population is       *)
(* replaced, the history and the best-ever record are updated.  The Match  *)
(* objects that neither the population nor best_schedule nor `mutated`     *)
(* refers to any more are freed.                                           *)
EndOfGeneration ==
    /\ pc = "loop"
    /\ op = "evaluate"
    /\ \E offspring \in {[i \in 1..Len(outputs) |->
                            [matches |-> outputs[i],
                             fitness |-> evaluate(Deref(heap, outputs[i]))]]} :
         \E pop \in {elites_then_offspring(population, offspring, cfg.n_elites)} :
           \E best \in {update_best(heap, pop, best_fitness, best_schedule)} :
             \E live \in {UNION {Addresses(pop[i].matches) : i \in 1..Len(pop)}
                           \cup Referred(best.best_schedule) \cup Referred(mutated)} :
               /\ population' = [i \in 1..Len(pop) |->
                                   [pop[i] EXCEPT !.matches = Moved(live, @)]]
               /\ history' = IF cfg.save_history
                             THEN [best_fitness |->
                                     Append(history.best_fitness, fmax(fitnesses_of(pop)))]
                             ELSE history
               /\ heap' = Surviving(best.heap, live)
               /\ best_fitness' = best.best_fitness
               /\ best_schedule' = MovedRef(live, best.best_schedule)
               /\ mutated' = MovedRef(live, mutated)
    /\ gen' = gen + 1
    /\ pc' = IF gen + 1 = cfg.n_generations THEN "done" ELSE "loop"
    /\ op' = "generation"
    /\ inputs' = <<>>
    /\ outputs' = <<>>
    /\ given' = <<>>
    /\ ls' = NoSearch
    /\ UNCHANGED <<cfg, error, generations_without_improvement, last_best_fitness,
                   members_best>>
    /\ UNCHANGED <<teams, varsRng>>

NextBest ==
    \/ SelectAndClone
    \/ CrossoverRoundSwap
    \/ CrossoverSkipped
    \/ MutationBlock
    \/ RepairOffspring
    \/ EvaluateOffspring
    \/ EvaluatePlain
    \/ EndOfGeneration

SpecBest == InitBest /\ [][NextBest]_vars

(* C30: at every generation boundary at which best_schedule is set,        *)
(* best_fitness is the fitness the evaluation gives for best_schedule's    *)
(* matches, it is the maximum of the best_fitness history entries recorded *)
(* so far (when the history is recorded), and best_schedule shares no      *)
(* match record with any member of the population.                         *)
C30_BestRecordConsistent ==
    (op = "generation" /\ best_schedule # NoSchedule) =>
        /\ best_fitness = evaluate(Deref(heap, best_schedule.matches))
        /\ cfg.save_history => best_fitness = fmax(history.best_fitness)
        /\ \A i \in 1..Len(population) :
              Addresses(best_schedule.matches) \cap Addresses(population[i].matches) = {}

(* C30 witness: after the second generation the stored schedule is the one *)
(* of the first generation, fitter than every member of the population,    *)
(* and it has matches.                                                     *)
C30_Witness ==
    /\ op = "generation"
    /\ gen = 2
    /\ cfg.save_history
    /\ best_schedule # NoSchedule
    /\ best_schedule.matches # <<>>
    /\ best_fitness > fmax(fitnesses_of(population))
    /\ best_fitness = history.best_fitness[1]

====
